---- MODULE Spec2Model ----
(***************************************************************************)
(* GrpcRequestHandler (src/core/src/server/grpc_impl/GrpcRequestHandler.cpp)*)
(*                                                                         *)
(* The request-context registry (context_map_, guarded by                  *)
(* context_map_mutex_), the insert admission gate                          *)
(* (max_concurrent_insert_request_size, guarded by                         *)
(* max_concurrent_insert_request_mutex, with insert_event_cv_) and the     *)
(* handlers that use them, as a state machine over concurrently running    *)
(* calls.  Every critical section of the code is one atomic step (in       *)
(* SpecMutex the lock and the unlock are steps of their own); the          *)
(* code between two critical sections of one call is a position (pc) of    *)
(* that call.  The registry and the admission gate share no state: Spec    *)
(* is the registry with the handlers as far as they touch it, and          *)
(* SpecAdmission is the Insert path with the gate, for calls whose ids     *)
(* the server generates (SpecSmall and SpecWakeup are SpecAdmission with   *)
(* the request sizes and contents narrowed).  A fault (a null dereference  *)
(* that traps) is recorded for the call that ran into it; that it ends the *)
(* whole server process is not modelled, so every state the server reaches *)
(* before a fault is a state of the model.                                 *)
(*                                                                         *)
(* Strings are sequences of one-character strings, so that                 *)
(* request_id + "_" + std::to_string(suffix) is real concatenation and a   *)
(* client may itself supply "a_1" or "0".                                  *)
(***************************************************************************)
EXTENDS Integers, Sequences, FiniteSets, TLC

(* ------------------------------ bounds -------------------------------- *)

\* number of calls that may be in flight together
NumCalls == 2

\* the configured budget, config.cache.max_concurrent_insert_request_size()
Budget == 3

Calls == 1..NumCalls

\* MAXIMUM_FIELD_NUM
MAXIMUM_FIELD_NUM == 64

\* how deep the boolean queries of the search requests nest below the root
MaxDepth == 1

\* how many leaf clauses the innermost clause arrays of the search requests have
MaxClauses == 2

\* how many fields the insert requests of one call have at most
MaxFields == 2

\* how many rows a field of these insert requests has at most
MaxRows == 2

(* ------------------------------ strings ------------------------------- *)

Digits == <<"0", "1", "2", "3", "4", "5", "6", "7", "8", "9">>

\* std::to_string of a non-negative integer
RECURSIVE to_string(_)
to_string(n) ==
    IF n < 10 THEN <<Digits[n + 1]>>
    ELSE to_string(n \div 10) \o <<Digits[(n % 10) + 1]>>

\* the literal get_request_id returns when the metadata holds no REQ_ID
INVALID_ID == <<"I", "N", "V", "A", "L", "I", "D", "_", "I", "D">>

\* no "request_id" entry in a metadata map
NoId == <<>>

\* request ids a client may put in its metadata
ClientIds == { <<"a">>, <<"a", "_", "1">>, <<"0">>, INVALID_ID }

(* --------------------------- context objects --------------------------- *)

\* a null std::shared_ptr<Context>
Null == [owner |-> 0, request_id |-> NoId]

\* std::make_shared<Context>(request_id) with the trace span of call c:
\* owner is the identity of the object (the call that made it)
NewContext(c, id) == [owner |-> c, request_id |-> id]

VARIABLES
    pc,                 \* position of each call
    mutex,              \* context_map_mutex_: the call that holds it, 0 when free
    sizes,              \* the byte sizes insert requests may have (fixed by Init)
    requests,           \* the insert requests the peers may send (fixed by Init)
    server_metadata,    \* per call: REQ_ID in the ServerContext's initial metadata
    request_id,         \* per call: the local request_id of OnPostRecvInitialMetaData
    context_map,        \* context_map_: key -> Context (or Null)
    sequential_id,      \* _sequential_id
    span_finished,      \* per call: the calls that ran Finish() on its span, in order
    supplied,           \* per call in flight: the id its client supplied (history)
    reserved,           \* per call in flight: the key its reservation wrote (history)
    budget,             \* max_concurrent_insert_request_size
    request_size,       \* per call: Insert's local request_size
    insert_status,      \* per call: the status OnInsert put in the response
    engine_insert,      \* per call: req_handler_.Insert invocations of its OnInsert
    held,               \* per call: bytes WaitToInsert took less bytes FinishInsert gave back (history)
    n_wait,             \* per call: returns from WaitToInsert (history)
    n_finish,           \* per call: runs of FinishInsert (history)
    rpc_request,        \* the request message of the call followed alone (fixed by Init)
    rpc_pc,             \* the position of that call in its handler
    search_boolean,     \* Search: its local boolean_query
    search_query,       \* Search: its local query_ptr
    rpc_status,         \* the handler's local status
    failed_at,          \* the step of the handler at which status became an error (history)
    response,           \* the response message
    returned,           \* how the handler was left: its ::grpc::Status, or by an exception
    engine_calls,       \* invocations of the handler's req_handler_ method
    insert_params,      \* the InsertParams handed to req_handler_.Insert, in order
    codec_request,      \* what the codec is given: an engine result or wire fields (fixed by Init)
    codec_pc,           \* the position of the call that marshals or ingests it
    entities,           \* the Entities message of the response
    fields_data,        \* InsertParam::fields_data_, per field, in the order of the fields
    vectors             \* the engine::VectorsData CopyRowRecords filled

registry_vars == <<server_metadata, request_id, context_map, sequential_id,
                   span_finished, supplied, reserved>>

admission_vars == <<budget, request_size, insert_status, engine_insert, held,
                    n_wait, n_finish>>

codec_vars == <<codec_request, codec_pc, entities, fields_data, vectors>>

handler_vars == <<rpc_request, rpc_pc, search_boolean, search_query, rpc_status, failed_at, returned,
                  engine_calls, insert_params>>

rpc_vars == <<handler_vars, response, codec_vars>>

vars == <<pc, mutex, sizes, requests, registry_vars, admission_vars, rpc_vars>>

(* ------------------------------ registry ------------------------------ *)

\* get_request_id(context): REQ_ID of the server metadata, or "INVALID_ID"
get_request_id(meta) == IF meta = NoId THEN INVALID_ID ELSE meta

\* context_map_.find(k) != context_map_.end()
Present(map, k) == k \in DOMAIN map

\* context_map_[k] = v
Put(map, k, v) == [x \in (DOMAIN map) \cup {k} |-> IF x = k THEN v ELSE map[x]]

\* context_map_.erase(k)
Erase(map, k) == [x \in (DOMAIN map) \ {k} |-> map[x]]

\* request_id + "_" + std::to_string(suffix)
Suffixed(id, suffix) == id \o <<"_">> \o to_string(suffix)

\* the do/while of OnPostRecvInitialMetaData, entered with suffix: the first
\* suffix from there on whose request_id_<suffix> is not in the map
RECURSIVE UnusedSuffix(_, _, _)
UnusedSuffix(map, id, suffix) ==
    IF Present(map, Suffixed(id, suffix))
    THEN UnusedSuffix(map, id, suffix + 1)
    ELSE suffix

\* the key the locked block of OnPostRecvInitialMetaData marks for id
ReserveKey(map, id) ==
    IF ~Present(map, id) THEN id
    ELSE Suffixed(id, UnusedSuffix(map, id, 1))

\* the local request_id after the locked block: try_request_id is never
\* copied into it, it stays the id the client supplied
IdAfterReserve(map, id) == id

\* OnPostRecvInitialMetaData, lines 606-623, trace extraction failing:
\* the function returns with nothing registered
BeginExtractFails(c) ==
    /\ pc[c] = "idle"
    /\ pc' = [pc EXCEPT ![c] = "handler"]
    /\ UNCHANGED <<rpc_vars, mutex, sizes, requests, registry_vars, admission_vars>>

\* OnPostRecvInitialMetaData, lines 624-654, the client supplying id
BeginClientId(c) ==
    /\ pc[c] = "idle"
    /\ \E id \in ClientIds :
          /\ context_map' = Put(context_map, ReserveKey(context_map, id), Null)
          /\ request_id' = [request_id EXCEPT ![c] = IdAfterReserve(context_map, id)]
          /\ supplied' = [supplied EXCEPT ![c] = id]
          /\ reserved' = [reserved EXCEPT ![c] = ReserveKey(context_map, id)]
    /\ pc' = [pc EXCEPT ![c] = "set_context"]
    /\ UNCHANGED <<rpc_vars, mutex, sizes, requests, server_metadata, sequential_id, span_finished, admission_vars>>

\* OnPostRecvInitialMetaData, lines 624-633 and 655-659, no id supplied:
\* get_sequential_id and set_request_id
BeginSequentialId(c) ==
    /\ pc[c] = "idle"
    /\ request_id' = [request_id EXCEPT ![c] = to_string(sequential_id)]
    /\ server_metadata' = [server_metadata EXCEPT ![c] = to_string(sequential_id)]
    /\ sequential_id' = sequential_id + 1
    /\ pc' = [pc EXCEPT ![c] = "set_context"]
    /\ UNCHANGED <<rpc_vars, mutex, sizes, requests, context_map, span_finished, supplied, reserved, admission_vars>>

\* the key SetContext writes for call c: get_request_id(server_context)
SetContextKey(c) == get_request_id(server_metadata[c])

\* OnPostRecvInitialMetaData, lines 661-664, and SetContext
SetContext(c) ==
    /\ pc[c] = "set_context"
    /\ context_map' = Put(context_map, SetContextKey(c), NewContext(c, request_id[c]))
    /\ request_id' = [request_id EXCEPT ![c] = NoId]
    /\ pc' = [pc EXCEPT ![c] = "handler"]
    /\ UNCHANGED <<rpc_vars, mutex, sizes, requests, server_metadata, sequential_id, span_finished, supplied,
                   reserved, admission_vars>>

\* GetContext(server_context): the entry under the call's request id, or null
GetContext(c) ==
    IF Present(context_map, get_request_id(server_metadata[c]))
    THEN context_map[get_request_id(server_metadata[c])]
    ELSE Null

\* where a call goes that evaluates GetContext(context)->ReqID(): on a null
\* context the dereference is undefined, the build either faults or goes on
Deref(c, next) == IF GetContext(c) = Null THEN {"fault", next} ELSE {next}

(* --------------------------- HasCollection ---------------------------- *)

\* HasCollection, line 781: the "begin" log line reads GetContext(context)->ReqID()
HasCollectionBegin(c) ==
    /\ pc[c] = "handler"
    /\ \E next \in Deref(c, "has_engine") : pc' = [pc EXCEPT ![c] = next]
    /\ UNCHANGED <<rpc_vars, mutex, sizes, requests, registry_vars, admission_vars>>

\* HasCollection, line 785: req_handler_.HasCollection(GetContext(context), ...);
\* the context is handed on, not dereferenced
HasCollectionEngine(c) ==
    /\ pc[c] = "has_engine"
    /\ pc' = [pc EXCEPT ![c] = "has_end"]
    /\ UNCHANGED <<rpc_vars, mutex, sizes, requests, registry_vars, admission_vars>>

\* HasCollection, lines 788-791: the "end" log line reads
\* GetContext(context)->ReqID() again, then the response is set
HasCollectionEnd(c) ==
    /\ pc[c] = "has_end"
    /\ \E next \in Deref(c, "pre_send") : pc' = [pc EXCEPT ![c] = next]
    /\ UNCHANGED <<rpc_vars, mutex, sizes, requests, registry_vars, admission_vars>>

(* ------------------------------- Insert ------------------------------- *)

\* an InsertParam message, as OnInsert reads it: the id array and, per
\* field, the element counts of its variants
Field(i32, i64, f, d, rec) ==
    [int32_value_size |-> i32, int64_value_size |-> i64, float_value_size |-> f,
     double_value_size |-> d, records_size |-> rec]

InsertRequests ==
    { [entity_id_array |-> <<>>,      fields |-> <<Field(2, 0, 0, 0, 0), Field(0, 0, 0, 0, 2)>>],
      [entity_id_array |-> <<7, 8>>,  fields |-> <<Field(0, 2, 0, 0, 0), Field(0, 0, 0, 0, 2)>>],
      [entity_id_array |-> <<7, -1>>, fields |-> <<Field(2, 0, 0, 0, 0)>>],
      [entity_id_array |-> <<7>>,     fields |-> <<Field(0, 0, 2, 0, 0), Field(0, 0, 0, 0, 2)>>],
      [entity_id_array |-> <<>>,      fields |-> <<Field(0, 0, 0, 2, 0), Field(0, 0, 0, 0, 1)>>],
      [entity_id_array |-> <<>>,      fields |-> <<>>] }

\* the first loop of OnInsert: some id is negative
HasNegativeId(ids) == \E i \in 1..Len(ids) : ids[i] < 0

\* the element count OnInsert takes for a field: the first variant, in the
\* order int32, int64, float, double, whose count is non-zero, else the vector records
FieldRowCount(f) ==
    IF f.int32_value_size > 0 THEN f.int32_value_size
    ELSE IF f.int64_value_size > 0 THEN f.int64_value_size
    ELSE IF f.float_value_size > 0 THEN f.float_value_size
    ELSE IF f.double_value_size > 0 THEN f.double_value_size
    ELSE f.records_size

\* faulty variant: only the first field is checked, against the id array
valid_row_count_FirstOnly(base, test, id_size) ==
    IF base < 0 /\ id_size > 0 /\ test # id_size
    THEN [base |-> test, error |-> "ID size not matches entity size"]
    ELSE [base |-> IF base < 0 THEN test ELSE base, error |-> ""]

\* the lambda valid_row_count(base, test): the new base and the error, "" when valid
valid_row_count(base, test, id_size) ==
    IF base < 0
    THEN IF id_size > 0 /\ test # id_size
         THEN [base |-> test, error |-> "ID size not matches entity size"]
         ELSE [base |-> test, error |-> ""]
    ELSE IF base # test
         THEN [base |-> base, error |-> "Field row count inconsist"]
         ELSE [base |-> base, error |-> ""]

\* the field loop of OnInsert from field i on with row count row_num: the
\* final row_num and the error that ended the loop, "" when it ran through
RECURSIVE FieldLoop(_, _, _, _)
FieldLoop(fields, i, row_num, id_size) ==
    IF i > Len(fields) THEN [row_num |-> row_num, error |-> ""]
    ELSE LET v == valid_row_count(row_num, FieldRowCount(fields[i]), id_size)
         IN  IF v.error # "" THEN [row_num |-> v.base, error |-> v.error]
             ELSE FieldLoop(fields, i + 1, v.base, id_size)

\* OnInsert, lines 1353-1400: the insert_param req_handler_.Insert is given
\* when the field loop ran through: row_count_ and, per column recorded by
\* RecordDataAddr or RecordVectorDataAddr, its element count; the last
\* column is the id array, under engine::FIELD_UID, when it is not empty
InsertParamOf(request) ==
    [row_count_ |-> FieldLoop(request.fields, 1, -1, Len(request.entity_id_array)).row_num,
     columns |-> [i \in 1..Len(request.fields) |->
                     [uid |-> FALSE, count |-> FieldRowCount(request.fields[i])]]
                 \o (IF Len(request.entity_id_array) > 0
                     THEN <<[uid |-> TRUE, count |-> Len(request.entity_id_array)]>>
                     ELSE <<>>)]

\* OnInsert(context, request, response) with the engine answering engine_ok:
\* the status it puts in the response and whether req_handler_.Insert ran
OnInsert(request, engine_ok) ==
    LET ids  == request.entity_id_array
        loop == FieldLoop(request.fields, 1, -1, Len(ids))
    IN  IF HasNegativeId(ids)
        THEN [status |-> "id can not be negative number", engine |-> 0]
        ELSE IF loop.error # ""
        THEN [status |-> loop.error, engine |-> 0]
        ELSE IF ~engine_ok
        THEN [status |-> "engine failure", engine |-> 1]
        ELSE [status |-> "OK", engine |-> 1]

\* faulty variant: the wait only asks whether any budget is left
WaitPredicate_AnyLeft(remaining, size) == remaining > 0

\* faulty variant: the wait is given the condition to go on waiting
WaitPredicate_Inverted(remaining, size) == remaining - size <= 0

\* faulty variant: the comparison is not strict
WaitPredicate_NonStrict(remaining, size) == remaining - size >= 0

\* the predicate of insert_event_cv_.wait in WaitToInsert
WaitPredicate(remaining, size) == remaining - size > 0

\* Insert, lines 1303-1311: request_id = GetContext(context)->ReqID() and
\* request_size = request->ByteSizeLong()
InsertBegin(c) ==
    /\ pc[c] = "handler"
    /\ \E next \in Deref(c, "wait") : pc' = [pc EXCEPT ![c] = next]
    /\ \E size \in sizes : request_size' = [request_size EXCEPT ![c] = size]
    /\ UNCHANGED <<rpc_vars, mutex, sizes, requests, registry_vars, budget, insert_status, engine_insert, held,
                   n_wait, n_finish>>

\* WaitToInsert: one pass of the wait under the mutex; the predicate holding,
\* the budget is decremented and the call goes on, else it sleeps on the
\* condition variable (which gives the mutex up)
WaitToInsert(c) ==
    /\ pc[c] = "wait"
    /\ IF WaitPredicate(budget, request_size[c])
       THEN /\ budget' = budget - request_size[c]
            /\ held' = [held EXCEPT ![c] = @ + request_size[c]]
            /\ n_wait' = [n_wait EXCEPT ![c] = @ + 1]
            /\ pc' = [pc EXCEPT ![c] = "on_insert"]
       ELSE /\ pc' = [pc EXCEPT ![c] = "cv_wait"]
            /\ UNCHANGED <<budget, held, n_wait>>
    /\ UNCHANGED <<rpc_vars, mutex, sizes, requests, registry_vars, request_size, insert_status, engine_insert,
                   n_finish>>

\* a spurious wake-up of a call asleep in insert_event_cv_.wait
SpuriousWakeup(c) ==
    /\ pc[c] = "cv_wait"
    /\ pc' = [pc EXCEPT ![c] = "wait"]
    /\ UNCHANGED <<rpc_vars, mutex, sizes, requests, registry_vars, admission_vars>>

\* faulty variant: Insert returns at once when OnInsert reported an error
AfterOnInsert_EarlyReturn(status) == IF status = "OK" THEN "finish_insert" ELSE "pre_send"

\* Insert, lines 1314-1319: where Insert goes on after OnInsert returned status;
\* no status makes it return before FinishInsert
AfterOnInsert(status) == "finish_insert"

\* Insert, line 1314: OnInsert on some request, the engine answering either way
InsertOnInsert(c) ==
    /\ pc[c] = "on_insert"
    /\ \E request \in requests, engine_ok \in BOOLEAN :
          /\ insert_status' = [insert_status EXCEPT ![c] = OnInsert(request, engine_ok).status]
          /\ engine_insert' = [engine_insert EXCEPT ![c] = OnInsert(request, engine_ok).engine]
    /\ pc' = [pc EXCEPT ![c] = AfterOnInsert(insert_status'[c])]
    /\ UNCHANGED <<rpc_vars, mutex, sizes, requests, registry_vars, budget, request_size, held, n_wait, n_finish>>

\* FinishInsert, lines 1831-1840: the budget is incremented under the mutex
FinishInsert(c) ==
    /\ pc[c] = "finish_insert"
    /\ budget' = budget + request_size[c]
    /\ held' = [held EXCEPT ![c] = @ - request_size[c]]
    /\ n_finish' = [n_finish EXCEPT ![c] = @ + 1]
    /\ pc' = [pc EXCEPT ![c] = "notify"]
    /\ UNCHANGED <<rpc_vars, mutex, sizes, requests, registry_vars, request_size, insert_status, engine_insert,
                   n_wait>>

\* faulty variant: FinishInsert does not notify
Woken_None == {}

\* the calls insert_event_cv_.notify_all() wakes: all that sleep on it
Woken == { w \in Calls : pc[w] = "cv_wait" }

\* FinishInsert, line 1841, and the return of Insert, line 1321: notify_all,
\* then the locals of Insert are gone
FinishInsertNotify(c) ==
    /\ pc[c] = "notify"
    /\ pc' = [w \in Calls |-> IF w = c THEN "pre_send"
                              ELSE IF w \in Woken THEN "wait" ELSE pc[w]]
    /\ request_size' = [request_size EXCEPT ![c] = 0]
    /\ UNCHANGED <<rpc_vars, mutex, sizes, requests, registry_vars, budget, insert_status, engine_insert, held,
                   n_wait, n_finish>>

\* Insert, lines 1311-1321, as the registry sees it: WaitToInsert, OnInsert and
\* FinishInsert write nothing of the registry (OnInsert hands
\* GetContext(context) on to the engine, line 1405, without reading it)
InsertRest(c) ==
    /\ pc[c] = "wait"
    /\ pc' = [pc EXCEPT ![c] = "pre_send"]
    /\ request_size' = [request_size EXCEPT ![c] = 0]
    /\ UNCHANGED <<rpc_vars, mutex, sizes, requests, registry_vars, budget, insert_status, engine_insert, held,
                   n_wait, n_finish>>

(* -------------------------- OnPreSendMessage --------------------------- *)

\* what OnPreSendMessage does for call c: nothing when the key is missing;
\* on a null entry the dereference is undefined (a fault, or the erase alone);
\* else Finish() on the entry's span and the erase
PreSendOutcomes(c) ==
    LET key == get_request_id(server_metadata[c])
    IN  IF ~Present(context_map, key) THEN {"missing"}
        ELSE IF context_map[key] = Null THEN {"fault", "erase"}
        ELSE {"finish"}

\* OnPreSendMessage; the response is sent and the call is over
OnPreSendMessage(c) ==
    /\ pc[c] = "pre_send"
    /\ \E out \in PreSendOutcomes(c) :
         LET key == get_request_id(server_metadata[c])
         IN  /\ pc' = [pc EXCEPT ![c] = IF out = "fault" THEN "send_fault" ELSE "done"]
             /\ context_map' = IF out \in {"erase", "finish"}
                               THEN Erase(context_map, key) ELSE context_map
             /\ span_finished' =
                  IF out = "finish"
                  THEN [span_finished EXCEPT ![context_map[key].owner] = Append(@, c)]
                  ELSE span_finished
    /\ insert_status' = [insert_status EXCEPT ![c] = ""]
    /\ engine_insert' = [engine_insert EXCEPT ![c] = 0]
    /\ UNCHANGED <<rpc_vars, mutex, sizes, requests, server_metadata, request_id, sequential_id, supplied, reserved,
                   budget, request_size, held, n_wait, n_finish>>

(* -------------------------------- JSON --------------------------------- *)
(* A milvus::json value: its type, for an object the keys (in the order    *)
(* of iteration, the std::map order) with the members in elems, for an     *)
(* array the elements in elems, for a string str, for a number num.        *)

JNull == [type |-> "null", keys |-> <<>>, elems |-> <<>>, str |-> "", num |-> 0]

JString(s) == [type |-> "string", keys |-> <<>>, elems |-> <<>>, str |-> s, num |-> 0]

JNumber(n) == [type |-> "number", keys |-> <<>>, elems |-> <<>>, str |-> "", num |-> n]

JArray(items) == [type |-> "array", keys |-> <<>>, elems |-> items, str |-> "", num |-> 0]

\* an object; ks is sorted and without duplicates
JObject(ks, vs) == [type |-> "object", keys |-> ks, elems |-> vs, str |-> "", num |-> 0]

\* a std::string that json::parse turns into j
Text(j) == [parses |-> TRUE, json |-> j, what |-> ""]

\* a std::string on which json::parse throws parse_error with message what
BadText(what) == [parses |-> FALSE, json |-> JNull, what |-> what]

\* json.empty(): null, or an object or array without elements
json_empty(j) ==
    \/ j.type = "null"
    \/ j.type \in {"object", "array"} /\ j.elems = <<>>

\* json.contains(key): only an object contains keys
json_contains(j, key) == j.type = "object" /\ \E i \in 1..Len(j.keys) : j.keys[i] = key

\* json[key] of an object that contains key
json_at(j, key) == j.elems[CHOOSE i \in 1..Len(j.keys) : j.keys[i] = key]

(* ----------------------------- status codes ---------------------------- *)

\* Status{code, message}
Status(code, message) == [code |-> code, message |-> message]

\* Status::OK()
StatusOK == Status("SERVER_SUCCESS", "")

\* an exception in flight, e.what() being message
Thrown(message) == Status("exception", message)

\* the rows of code_map in ErrorMap
code_map ==
    { <<"SERVER_UNEXPECTED_ERROR", "UNEXPECTED_ERROR">>,
      <<"SERVER_UNSUPPORTED_ERROR", "UNEXPECTED_ERROR">>,
      <<"SERVER_NULL_POINTER", "UNEXPECTED_ERROR">>,
      <<"SERVER_INVALID_ARGUMENT", "ILLEGAL_ARGUMENT">>,
      <<"SERVER_FILE_NOT_FOUND", "FILE_NOT_FOUND">>,
      <<"SERVER_NOT_IMPLEMENT", "UNEXPECTED_ERROR">>,
      <<"SERVER_CANNOT_CREATE_FOLDER", "CANNOT_CREATE_FOLDER">>,
      <<"SERVER_CANNOT_CREATE_FILE", "CANNOT_CREATE_FILE">>,
      <<"SERVER_CANNOT_DELETE_FOLDER", "CANNOT_DELETE_FOLDER">>,
      <<"SERVER_CANNOT_DELETE_FILE", "CANNOT_DELETE_FILE">>,
      <<"SERVER_COLLECTION_NOT_EXIST", "COLLECTION_NOT_EXISTS">>,
      <<"SERVER_INVALID_COLLECTION_NAME", "ILLEGAL_COLLECTION_NAME">>,
      <<"SERVER_INVALID_COLLECTION_DIMENSION", "ILLEGAL_DIMENSION">>,
      <<"SERVER_INVALID_VECTOR_DIMENSION", "ILLEGAL_DIMENSION">>,
      <<"SERVER_INVALID_FIELD_NAME", "ILLEGAL_ARGUMENT">>,
      <<"SERVER_INVALID_FIELD_NUM", "ILLEGAL_ARGUMENT">>,
      <<"SERVER_INVALID_INDEX_TYPE", "ILLEGAL_INDEX_TYPE">>,
      <<"SERVER_INVALID_ROWRECORD", "ILLEGAL_ROWRECORD">>,
      <<"SERVER_INVALID_ROWRECORD_ARRAY", "ILLEGAL_ROWRECORD">>,
      <<"SERVER_INVALID_TOPK", "ILLEGAL_TOPK">>,
      <<"SERVER_INVALID_NPROBE", "ILLEGAL_ARGUMENT">>,
      <<"SERVER_INVALID_INDEX_NLIST", "ILLEGAL_NLIST">>,
      <<"SERVER_INVALID_INDEX_METRIC_TYPE", "ILLEGAL_METRIC_TYPE">>,
      <<"SERVER_INVALID_SEGMENT_ROW_COUNT", "ILLEGAL_ARGUMENT">>,
      <<"SERVER_ILLEGAL_VECTOR_ID", "ILLEGAL_VECTOR_ID">>,
      <<"SERVER_ILLEGAL_SEARCH_RESULT", "ILLEGAL_SEARCH_RESULT">>,
      <<"SERVER_CACHE_FULL", "CACHE_FAILED">>,
      <<"DB_META_TRANSACTION_FAILED", "META_FAILED">>,
      <<"SERVER_BUILD_INDEX_ERROR", "BUILD_INDEX_ERROR">>,
      <<"SERVER_OUT_OF_MEMORY", "OUT_OF_MEMORY">> }

\* ErrorMap(code): the wire code of a server code, UNEXPECTED_ERROR for a code
\* that is not in code_map
ErrorMap(code) ==
    IF \E row \in code_map : row[1] = code
    THEN (CHOOSE row \in code_map : row[1] = code)[2]
    ELSE "UNEXPECTED_ERROR"

(* --------------------------- query compiler ---------------------------- *)

\* std::make_shared<query::BooleanQuery>(): no occur, no leaf queries, no
\* boolean queries
NewBooleanQuery == [occur |-> "INVALID", leaf_queries |-> <<>>, boolean_queries |-> <<>>]

\* std::make_shared<query::Query>() as the compiler fills it: vectors (the
\* placeholder map), index_fields and metric_types
NewQuery == [vectors |-> {}, index_fields |-> {}, metric_types |-> {}]

\* std::make_shared<query::VectorQuery>()
NewVectorQuery == [field_name |-> "", topk |-> 0, metric_type |-> "", extra_params |-> JNull]

\* a query::LeafQuery: a term or range query with its json_obj, or the
\* vector_placeholder
LeafQuery(kind, json_obj, placeholder) ==
    [kind |-> kind, json_obj |-> json_obj, vector_placeholder |-> placeholder]

\* the keys of a boolean query and the occur each one sets
Occur == [must |-> "MUST", must_not |-> "MUST_NOT", should |-> "SHOULD"]

\* the message for a key whose value is not an array
NotArrayMessage ==
    [must |-> "Must json string is not an array",
     must_not |-> "Must_not json string is not an array",
     should |-> "Should json string is not an array"]

BoolKeys == DOMAIN Occur

\* json.contains("must") || json.contains("should") || json.contains("must_not")
ContainsBoolKey(json) == \E key \in BoolKeys : json_contains(json, key)

\* the macro JSON_NULL_CHECK: the status it returns with, OK when it goes on
JSON_NULL_CHECK(json) ==
    IF json_empty(json) THEN Status("SERVER_INVALID_ARGUMENT", "Json is null") ELSE StatusOK

\* the macro JSON_OBJECT_CHECK: the status it returns with, OK when it goes on
JSON_OBJECT_CHECK(json) ==
    IF json.type # "object" THEN Status("SERVER_INVALID_ARGUMENT", "Json is not object")
    ELSE StatusOK

\* the term and the range branch of ProcessLeafQueryJson
TermOrRangeLeaf(kind, json_obj, query) ==
    IF JSON_NULL_CHECK(json_obj) # StatusOK
    THEN [status |-> JSON_NULL_CHECK(json_obj), boolean_query |-> query, field_name |-> ""]
    ELSE IF JSON_OBJECT_CHECK(json_obj) # StatusOK
    THEN [status |-> JSON_OBJECT_CHECK(json_obj), boolean_query |-> query, field_name |-> ""]
    ELSE [status |-> StatusOK,
          boolean_query |-> [query EXCEPT !.leaf_queries =
                                Append(@, LeafQuery(kind, json_obj, ""))],
          field_name |-> json_obj.keys[1]]

\* ProcessLeafQueryJson(query_json, query, field_name): the status, the
\* query with the leaf added, and field_name
ProcessLeafQueryJson(query_json, query) ==
    IF json_contains(query_json, "term")
    THEN TermOrRangeLeaf("term", json_at(query_json, "term"), query)
    ELSE IF json_contains(query_json, "range")
    THEN TermOrRangeLeaf("range", json_at(query_json, "range"), query)
    ELSE IF json_contains(query_json, "vector")
    THEN LET vector_json == json_at(query_json, "vector")
         IN  IF JSON_NULL_CHECK(vector_json) # StatusOK
             THEN [status |-> JSON_NULL_CHECK(vector_json), boolean_query |-> query,
                   field_name |-> ""]
             ELSE IF vector_json.type # "string"
             THEN [status |-> Thrown("type must be string"), boolean_query |-> query,
                   field_name |-> ""]
             ELSE [status |-> StatusOK,
                   boolean_query |-> [query EXCEPT !.leaf_queries =
                                         Append(@, LeafQuery("vector", JNull, vector_json.str))],
                   field_name |-> ""]
    ELSE [status |-> Status("SERVER_INVALID_ARGUMENT", "Leaf query get wrong key"),
          boolean_query |-> query, field_name |-> ""]

\* the keys query_json.items() iterates: those of an object, the indices of
\* an array, and "" for any other value
ItemKeys(query_json) ==
    IF query_json.type = "object" THEN query_json.keys
    ELSE IF query_json.type = "array" THEN [i \in 1..Len(query_json.elems) |-> "index"]
    ELSE <<"">>

RECURSIVE ProcessBooleanQueryJson(_, _, _)
RECURSIVE ProcessClauses(_, _, _, _)
RECURSIVE ProcessItems(_, _, _, _)

\* ProcessBooleanQueryJson, the loop over the clauses of one key (lines
\* 1591-1603, 1612-1624 and 1633-1645 are the same loop) from clause i on
ProcessClauses(clauses, i, boolean_query, query_ptr) ==
    IF i > Len(clauses)
    THEN [status |-> StatusOK, boolean_query |-> boolean_query, query_ptr |-> query_ptr]
    ELSE IF ContainsBoolKey(clauses[i])
    THEN LET sub == ProcessBooleanQueryJson(clauses[i], NewBooleanQuery, query_ptr)
         IN  IF sub.status # StatusOK
             THEN [status |-> sub.status, boolean_query |-> boolean_query,
                   query_ptr |-> sub.query_ptr]
             ELSE ProcessClauses(clauses, i + 1,
                                 [boolean_query EXCEPT !.boolean_queries =
                                     Append(@, sub.boolean_query)],
                                 sub.query_ptr)
    ELSE LET leaf == ProcessLeafQueryJson(clauses[i], boolean_query)
         IN  IF leaf.status # StatusOK
             THEN [status |-> leaf.status, boolean_query |-> leaf.boolean_query,
                   query_ptr |-> query_ptr]
             ELSE ProcessClauses(clauses, i + 1, leaf.boolean_query,
                                 IF leaf.field_name # ""
                                 THEN [query_ptr EXCEPT !.index_fields = @ \cup {leaf.field_name}]
                                 ELSE query_ptr)

\* ProcessBooleanQueryJson, the loop over query_json.items() from item k on
ProcessItems(query_json, k, boolean_query, query_ptr) ==
    IF k > Len(ItemKeys(query_json))
    THEN [status |-> StatusOK, boolean_query |-> boolean_query, query_ptr |-> query_ptr]
    ELSE IF ItemKeys(query_json)[k] \in BoolKeys
    THEN LET occurred == [boolean_query EXCEPT !.occur = Occur[ItemKeys(query_json)[k]]]
             value == query_json.elems[k]
         IN  IF value.type # "array"
             THEN [status |-> Status("SERVER_INVALID_DSL_PARAMETER",
                                     NotArrayMessage[ItemKeys(query_json)[k]]),
                   boolean_query |-> occurred, query_ptr |-> query_ptr]
             ELSE LET done == ProcessClauses(value.elems, 1, occurred, query_ptr)
                  IN  IF done.status # StatusOK THEN done
                      ELSE ProcessItems(query_json, k + 1, done.boolean_query, done.query_ptr)
    ELSE [status |-> Status("SERVER_INVALID_DSL_PARAMETER",
                            "BoolQuery json string does not include bool query"),
          boolean_query |-> boolean_query, query_ptr |-> query_ptr]

\* ProcessBooleanQueryJson(query_json, boolean_query, query_ptr): the status
\* and what it has made of boolean_query and query_ptr by then
ProcessBooleanQueryJson(query_json, boolean_query, query_ptr) ==
    IF json_empty(query_json)
    THEN [status |-> Status("SERVER_INVALID_ARGUMENT", "BoolQuery is null"),
          boolean_query |-> boolean_query, query_ptr |-> query_ptr]
    ELSE ProcessItems(query_json, 1, boolean_query, query_ptr)

\* the engine-declared maximum of top-k
EngineMaxTopk == 16384

\* server::ValidateSearchTopk(topk): top-k is positive and at most the
\* engine's maximum
ValidateSearchTopk(topk) ==
    IF topk > 0 /\ topk <= EngineMaxTopk THEN StatusOK
    ELSE Status("SERVER_INVALID_TOPK", "Invalid topk")

\* faulty variant: the "params" of the block never reach the descriptor
RegisterVectorField_NoExtraParams(vector_query, query_ptr, field_name, param_json) ==
    LET metric == IF json_contains(param_json, "metric_type")
                  THEN json_at(param_json, "metric_type").str ELSE ""
    IN  [vector_query |-> [vector_query EXCEPT !.field_name = field_name,
                                               !.topk = json_at(param_json, "topk").num,
                                               !.metric_type = metric],
         query_ptr |-> [query_ptr EXCEPT
                           !.metric_types = IF json_contains(param_json, "metric_type")
                                            THEN @ \cup {<<field_name, metric>>} ELSE @,
                           !.index_fields = @ \cup {field_name}]]

\* the descriptor and the sets of query_ptr after lines 1683-1692, for the
\* field field_name with the parameters param_json
RegisterVectorField(vector_query, query_ptr, field_name, param_json) ==
    LET metric == IF json_contains(param_json, "metric_type")
                  THEN json_at(param_json, "metric_type").str ELSE ""
        extra  == IF json_contains(param_json, "params")
                     /\ ~json_empty(json_at(param_json, "params"))
                  THEN json_at(param_json, "params") ELSE JNull
    IN  [vector_query |-> [vector_query EXCEPT !.field_name = field_name,
                                               !.topk = json_at(param_json, "topk").num,
                                               !.metric_type = metric,
                                               !.extra_params = extra],
         query_ptr |-> [query_ptr EXCEPT
                           !.metric_types = IF json_contains(param_json, "metric_type")
                                            THEN @ \cup {<<field_name, metric>>} ELSE @,
                           !.index_fields = @ \cup {field_name}]]

\* query_ptr->vectors.insert(std::make_pair(placeholder, vector_query)): a
\* key that is there already keeps its descriptor
InsertVector(query_ptr, placeholder, vector_query) ==
    IF \E v \in query_ptr.vectors : v.placeholder = placeholder THEN query_ptr
    ELSE [query_ptr EXCEPT !.vectors =
             @ \cup {[placeholder |-> placeholder, vector_query |-> vector_query]}]

\* faulty variant: the field and its metric type are registered before
\* top-k is validated
VectorFieldParam_RegisterFirst(vector_query, query_ptr, field_name, param_json) ==
    IF param_json.type \notin {"object", "null"}
    THEN [status |-> Thrown("cannot use operator[] with a string argument"),
          vector_query |-> vector_query, query_ptr |-> query_ptr]
    ELSE IF ~json_contains(param_json, "topk") \/ json_at(param_json, "topk").type # "number"
    THEN [status |-> Thrown("type must be number"),
          vector_query |-> vector_query, query_ptr |-> query_ptr]
    ELSE IF json_contains(param_json, "metric_type")
            /\ json_at(param_json, "metric_type").type # "string"
    THEN [status |-> Thrown("type must be string"),
          vector_query |-> vector_query, query_ptr |-> query_ptr]
    ELSE [status |-> ValidateSearchTopk(json_at(param_json, "topk").num),
          vector_query |-> RegisterVectorField(vector_query, query_ptr, field_name,
                                               param_json).vector_query,
          query_ptr |-> RegisterVectorField(vector_query, query_ptr, field_name,
                                            param_json).query_ptr]

\* DeserializeDslToBoolQuery, lines 1678-1692, the block naming a field:
\* top-k is read and validated, then the descriptor is filled and the field
\* and its metric type are registered
VectorFieldParam(vector_query, query_ptr, field_name, param_json) ==
    IF param_json.type \notin {"object", "null"}
    THEN [status |-> Thrown("cannot use operator[] with a string argument"),
          vector_query |-> vector_query, query_ptr |-> query_ptr]
    ELSE IF ~json_contains(param_json, "topk") \/ json_at(param_json, "topk").type # "number"
    THEN [status |-> Thrown("type must be number"),
          vector_query |-> vector_query, query_ptr |-> query_ptr]
    ELSE IF ValidateSearchTopk(json_at(param_json, "topk").num) # StatusOK
    THEN [status |-> ValidateSearchTopk(json_at(param_json, "topk").num),
          vector_query |-> vector_query, query_ptr |-> query_ptr]
    ELSE IF json_contains(param_json, "metric_type")
            /\ json_at(param_json, "metric_type").type # "string"
    THEN [status |-> Thrown("type must be string"),
          vector_query |-> [vector_query EXCEPT
                               !.field_name = field_name,
                               !.topk = json_at(param_json, "topk").num],
          query_ptr |-> query_ptr]
    ELSE [status |-> StatusOK,
          vector_query |-> RegisterVectorField(vector_query, query_ptr, field_name,
                                               param_json).vector_query,
          query_ptr |-> RegisterVectorField(vector_query, query_ptr, field_name,
                                            param_json).query_ptr]

\* DeserializeDslToBoolQuery, lines 1670-1702, one turn of the loop over the
\* vector-parameter blocks: the status and query_ptr by then.  (The block
\* is not the empty object: reading the key of its first member is then
\* undefined.)
ProcessVectorParam(vector_param, query_ptr) ==
    IF ~vector_param.json.parses
    THEN [status |-> Thrown(vector_param.json.what), query_ptr |-> query_ptr]
    ELSE LET vector_json == vector_param.json.json
         IN  IF vector_json.type # "object"
             THEN [status |-> Thrown("cannot use key() for non-object iterators"),
                   query_ptr |-> query_ptr]
             ELSE LET placeholder == vector_json.keys[1]
                      value == vector_json.elems[1]
                  IN  IF json_empty(value)
                      THEN [status |-> StatusOK,
                            query_ptr |-> InsertVector(query_ptr, placeholder, NewVectorQuery)]
                      ELSE IF value.type # "object"
                      THEN [status |-> Thrown("cannot use key() for non-object iterators"),
                            query_ptr |-> query_ptr]
                      ELSE LET field == VectorFieldParam(NewVectorQuery, query_ptr,
                                                         value.keys[1], value.elems[1])
                           IN  IF field.status # StatusOK
                               THEN [status |-> field.status, query_ptr |-> field.query_ptr]
                               ELSE [status |-> StatusOK,
                                     query_ptr |-> InsertVector(field.query_ptr, placeholder,
                                                                field.vector_query)]

\* the try block of DeserializeDslToBoolQuery
DeserializeTry(vector_params, dsl_string, boolean_query, query_ptr) ==
    IF ~dsl_string.parses
    THEN [status |-> Thrown(dsl_string.what), boolean_query |-> boolean_query,
          query_ptr |-> query_ptr]
    ELSE IF json_empty(dsl_string.json)
    THEN [status |-> Status("SERVER_INVALID_ARGUMENT", "Query dsl is null"),
          boolean_query |-> boolean_query, query_ptr |-> query_ptr]
    ELSE IF Len(vector_params) # 1
    THEN [status |-> Status("SERVER_INVALID_DSL_PARAMETER",
                            "There should only be one vector query"),
          boolean_query |-> boolean_query, query_ptr |-> query_ptr]
    ELSE LET param == ProcessVectorParam(vector_params[1], query_ptr)
         IN  IF param.status # StatusOK
             THEN [status |-> param.status, boolean_query |-> boolean_query,
                   query_ptr |-> param.query_ptr]
             ELSE IF ~json_contains(dsl_string.json, "bool")
             THEN [status |-> Status("SERVER_INVALID_DSL_PARAMETER",
                                     "DSL does not include bool query"),
                   boolean_query |-> boolean_query, query_ptr |-> param.query_ptr]
             ELSE IF JSON_NULL_CHECK(json_at(dsl_string.json, "bool")) # StatusOK
             THEN [status |-> JSON_NULL_CHECK(json_at(dsl_string.json, "bool")),
                   boolean_query |-> boolean_query, query_ptr |-> param.query_ptr]
             ELSE ProcessBooleanQueryJson(json_at(dsl_string.json, "bool"), boolean_query,
                                          param.query_ptr)

\* the code of the status the catch clause of DeserializeDslToBoolQuery returns
CaughtCode == "SERVER_INVALID_DSL_PARAMETER"

\* DeserializeDslToBoolQuery(vector_params, dsl_string, boolean_query,
\* query_ptr): an exception of the try block is caught and returned as a
\* status with e.what()
DeserializeDslToBoolQuery(vector_params, dsl_string, boolean_query, query_ptr) ==
    LET try == DeserializeTry(vector_params, dsl_string, boolean_query, query_ptr)
    IN  IF try.status.code = "exception"
        THEN [try EXCEPT !.status = Status(CaughtCode, try.status.message)]
        ELSE try

(* --------------------------- search requests --------------------------- *)

\* {"term": {field: {"values": [1]}}}
TermLeaf(field) ==
    JObject(<<"term">>, <<JObject(<<field>>, <<JObject(<<"values">>, <<JArray(<<JNumber(1)>>)>>)>>)>>)

\* {"range": {field: {"gt": 1}}}
RangeLeaf(field) ==
    JObject(<<"range">>, <<JObject(<<field>>, <<JObject(<<"gt">>, <<JNumber(1)>>)>>)>>)

\* {"vector": placeholder}
VectorLeaf(placeholder) == JObject(<<"vector">>, <<JString(placeholder)>>)

BaseLeaves == { TermLeaf("age"), RangeLeaf("price"), VectorLeaf("placeholder_1") }

\* the non-empty sequences over S of length up to n
SeqsUpTo(S, n) == UNION { [1..k -> S] : k \in 1..n }

\* {key: clauses}
BoolObject1(key, clauses) == JObject(<<key>>, <<JArray(clauses)>>)

\* {key1: clauses1, key2: clauses2}, key1 before key2
BoolObject2(key1, clauses1, key2, clauses2) ==
    JObject(<<key1, key2>>, <<JArray(clauses1), JArray(clauses2)>>)

KeyPairs == { <<"must", "must_not">>, <<"must", "should">>, <<"must_not", "should">> }

\* the ways to nest a boolean object one level deeper: as the only clause
\* of a key, after a leaf, and as the clause of the first or of the second
\* of two keys
Wrappers ==
    { <<shape, key, key>> : shape \in {"only", "after_leaf"}, key \in BoolKeys }
    \cup { <<shape, kp[1], kp[2]>> : shape \in {"first", "second"}, kp \in KeyPairs }

\* the boolean object that nests b the way w says
Wrap(w, b) ==
    CASE w[1] = "only"       -> BoolObject1(w[2], <<b>>)
      [] w[1] = "after_leaf" -> BoolObject1(w[2], <<TermLeaf("age"), b>>)
      [] w[1] = "first"      -> BoolObject2(w[2], <<b>>, w[3], <<TermLeaf("age")>>)
      [] w[1] = "second"     -> BoolObject2(w[2], <<TermLeaf("age")>>, w[3], <<b>>)

\* boolean objects of leaves only, and those nesting up to depth levels
RECURSIVE BoolObjects(_)
BoolObjects(depth) ==
    IF depth = 0
    THEN { BoolObject1(key, clauses) : key \in BoolKeys, clauses \in SeqsUpTo(BaseLeaves, MaxClauses) }
         \cup { BoolObject2(kp[1], <<a>>, kp[2], <<b>>) : kp \in KeyPairs, a \in BaseLeaves,
                                                         b \in BaseLeaves }
    ELSE LET inner == BoolObjects(depth - 1)
         IN  inner \cup { Wrap(w, b) : w \in Wrappers, b \in inner }

\* {"bool": b}
Dsl(b) == Text(JObject(<<"bool">>, <<b>>))

\* the filters whose boolean structure is well formed
NestedFilters == { Dsl(b) : b \in BoolObjects(MaxDepth) }

\* filters that are malformed in one place, and two that are well formed
SampleFilters ==
    { BadText("parse error"),
      Text(JNull),
      Text(JObject(<<>>, <<>>)),
      Text(JNumber(1)),
      Text(JArray(<<TermLeaf("age")>>)),
      Text(TermLeaf("age")),
      Text(BoolObject1("must", <<TermLeaf("age")>>)),
      Dsl(JNull),
      Dsl(JNumber(1)),
      Dsl(JArray(<<TermLeaf("age")>>)),
      Dsl(TermLeaf("age")),
      Dsl(JObject(<<"must">>, <<TermLeaf("age")>>)),
      Dsl(BoolObject1("must", <<>>)),
      Dsl(BoolObject1("must", <<JObject(<<"foo">>, <<JNumber(1)>>)>>)),
      Dsl(BoolObject1("must", <<JNumber(1)>>)),
      Dsl(BoolObject1("must", <<JObject(<<"term">>, <<JNull>>)>>)),
      Dsl(BoolObject1("must", <<JObject(<<"term">>, <<JNumber(1)>>)>>)),
      Dsl(BoolObject1("must", <<JObject(<<"vector">>, <<JNumber(1)>>)>>)),
      Dsl(BoolObject1("must", <<TermLeaf("age"), JObject(<<"foo">>, <<JNumber(1)>>)>>)),
      Dsl(BoolObject1("must", <<BoolObject1("should", <<>>)>>)),
      Dsl(BoolObject1("must", <<VectorLeaf("placeholder_2")>>)),
      Dsl(BoolObject1("must", <<TermLeaf("age"), VectorLeaf("placeholder_2")>>)),
      Dsl(BoolObject1("must", <<TermLeaf("age")>>)),
      Dsl(BoolObject1("must", <<TermLeaf("age"), VectorLeaf("placeholder_1")>>)) }

\* a VectorParam whose json is {placeholder: value}
VectorParam(placeholder, value) == [json |-> Text(JObject(<<placeholder>>, <<value>>))]

\* {field: {"metric_type": "L2", "params": {"nprobe": 10}, "topk": topk}}
FieldParams(field, topk) ==
    JObject(<<field>>,
            <<JObject(<<"metric_type", "params", "topk">>,
                      <<JString("L2"), JObject(<<"nprobe">>, <<JNumber(10)>>), topk>>)>>)

\* {field: {"metric_type": "IP", "params": {}, "topk": topk}}
EmptyParams(field, topk) ==
    JObject(<<field>>,
            <<JObject(<<"metric_type", "params", "topk">>,
                      <<JString("IP"), JObject(<<>>, <<>>), topk>>)>>)

GoodVectorParam == VectorParam("placeholder_1", FieldParams("vec", JNumber(10)))

\* the vector-parameter blocks of the requests: well formed, with a top-k
\* the engine rejects, and malformed in one place
VectorParams ==
    { GoodVectorParam,
      VectorParam("placeholder_1", EmptyParams("vec", JNumber(10))),
      VectorParam("placeholder_1", FieldParams("vec", JNumber(0))),
      VectorParam("placeholder_1", FieldParams("vec", JNumber(EngineMaxTopk + 1))),
      VectorParam("placeholder_1", FieldParams("vec", JString("ten"))),
      VectorParam("placeholder_1", JObject(<<"vec">>, <<JObject(<<"topk">>, <<JNumber(10)>>)>>)),
      VectorParam("placeholder_1",
                  JObject(<<"vec">>, <<JObject(<<"metric_type", "topk">>,
                                               <<JNumber(1), JNumber(10)>>)>>)),
      VectorParam("placeholder_1",
                  JObject(<<"vec">>, <<JObject(<<"metric_type">>, <<JString("L2")>>)>>)),
      VectorParam("placeholder_1", JObject(<<"vec">>, <<JNull>>)),
      VectorParam("placeholder_1", JObject(<<"vec">>, <<JNumber(1)>>)),
      VectorParam("placeholder_1", JObject(<<>>, <<>>)),
      VectorParam("placeholder_1", JNull),
      VectorParam("placeholder_1", JNumber(1)),
      [json |-> Text(JArray(<<JNumber(1)>>))],
      [json |-> BadText("parse error")] }

\* request->vector_param(): no block, one block, two blocks
VectorParamLists ==
    { <<>> } \cup { <<v>> : v \in VectorParams }
    \cup { <<GoodVectorParam, v>> : v \in { GoodVectorParam,
                                              VectorParam("placeholder_2",
                                                          FieldParams("vec", JNumber(10))) } }

\* a KeyValuePair
KeyValuePair(key, value) == [key |-> key, value |-> value]

\* request->extra_params(): none, a parseable and an unparseable value under
\* "params", and an unparseable value under another key
ExtraParamLists ==
    { <<>>,
      <<KeyValuePair("params", Text(JObject(<<"nprobe">>, <<JNumber(10)>>)))>>,
      <<KeyValuePair("params", BadText("parse error"))>>,
      <<KeyValuePair("other", BadText("parse error"))>> }

\* the request message of a handler; a handler reads the parts that its
\* request type has
Request(verb, dsl, vector_param, extra_params, fields, entity_id_array) ==
    [verb |-> verb, dsl |-> dsl, vector_param |-> vector_param, extra_params |-> extra_params,
     fields |-> fields, entity_id_array |-> entity_id_array]

\* no request: the call followed alone is not part of the specification
NoRequest == Request("", BadText(""), <<>>, <<>>, <<>>, <<>>)

SearchParam(dsl, vector_param, extra_params) ==
    Request("Search", dsl, vector_param, extra_params, <<>>, <<>>)

SearchRequests ==
    { SearchParam(dsl, <<GoodVectorParam>>, <<>>) : dsl \in NestedFilters }
    \cup { SearchParam(dsl, vector_param, <<>>) : dsl \in SampleFilters,
                                                   vector_param \in VectorParamLists }
    \cup { SearchParam(dsl, <<GoodVectorParam>>, extra_params) :
              dsl \in { Dsl(BoolObject1("must", <<TermLeaf("age"), VectorLeaf("placeholder_1")>>)),
                        Text(TermLeaf("age")) },
              extra_params \in ExtraParamLists }

(* ------------------------- handlers, one call -------------------------- *)
(* Search, CreateCollection and CreateIndex for one call followed alone,   *)
(* whose context is registered: the request is fixed by Init, the engine   *)
(* answers either way.                                                     *)

call_vars == <<pc, mutex, sizes, requests, registry_vars, admission_vars, codec_vars>>

\* what the macro SET_RESPONSE writes into a status message of the
\* response: the wire code of the status and its message
SET_RESPONSE(status) ==
    [error_code |-> IF status = StatusOK THEN "SUCCESS" ELSE ErrorMap(status.code),
     reason |-> status.message]

\* a response message nothing was written to; entities_status is the status
\* of response->entities()
NewResponse == [status |-> SET_RESPONSE(StatusOK), entities_status |-> SET_RESPONSE(StatusOK)]

\* the handler goes on to its next step with status
GoOn(status, next) ==
    /\ rpc_status' = status
    /\ rpc_pc' = next
    /\ UNCHANGED <<failed_at, response, returned>>

\* SET_RESPONSE(response->mutable_status(), status, context) and
\* return ::grpc::Status::OK, for a status that step made
Reply(step, status) ==
    /\ rpc_status' = status
    /\ failed_at' = IF status = StatusOK THEN failed_at ELSE step
    /\ response' = [response EXCEPT !.status = SET_RESPONSE(status)]
    /\ returned' = "OK"
    /\ rpc_pc' = "returned"

\* an exception leaves the handler
Throw ==
    /\ returned' = "exception"
    /\ rpc_pc' = "returned"
    /\ UNCHANGED <<rpc_status, failed_at, response>>

\* the statuses an engine method answers with
EngineAnswers == { StatusOK, Status("SERVER_COLLECTION_NOT_EXIST", "collection not exist") }

\* Search, lines 1724-1733: req_handler_.GetCollectionInfo
SearchGetCollectionInfo ==
    /\ rpc_request.verb = "Search"
    /\ rpc_pc = "start"
    /\ \E status \in EngineAnswers :
          IF status = StatusOK THEN GoOn(status, "deserialize") ELSE Reply("collection", status)
    /\ UNCHANGED <<call_vars, insert_params, rpc_request, search_boolean, search_query, engine_calls>>

\* Search, lines 1735-1743: DeserializeDslToBoolQuery on a new boolean_query
\* and a new query_ptr
SearchDeserialize ==
    /\ rpc_pc = "deserialize"
    /\ LET compiled == DeserializeDslToBoolQuery(rpc_request.vector_param, rpc_request.dsl,
                                                 NewBooleanQuery, NewQuery)
       IN  /\ search_boolean' = compiled.boolean_query
           /\ search_query' = compiled.query_ptr
           /\ IF compiled.status = StatusOK THEN GoOn(compiled.status, "validate")
              ELSE Reply("compile", compiled.status)
    /\ UNCHANGED <<call_vars, insert_params, rpc_request, engine_calls>>

\* query::QueryUtil::ValidateBooleanQuery: every node has its occur set and
\* at least one child
RECURSIVE ValidateBooleanQuery(_)
ValidateBooleanQuery(boolean_query) ==
    IF boolean_query.occur = "INVALID"
       \/ (boolean_query.leaf_queries = <<>> /\ boolean_query.boolean_queries = <<>>)
    THEN Status("SERVER_INVALID_ARGUMENT", "invalid boolean query")
    ELSE IF \E i \in 1..Len(boolean_query.boolean_queries) :
               ValidateBooleanQuery(boolean_query.boolean_queries[i]) # StatusOK
    THEN Status("SERVER_INVALID_ARGUMENT", "invalid boolean query")
    ELSE StatusOK

\* Search, lines 1745-1749
SearchValidateBooleanQuery ==
    /\ rpc_pc = "validate"
    /\ IF ValidateBooleanQuery(search_boolean) = StatusOK
       THEN GoOn(StatusOK, "gen_binary")
       ELSE Reply("boolean", ValidateBooleanQuery(search_boolean))
    /\ UNCHANGED <<call_vars, insert_params, rpc_request, search_boolean, search_query, engine_calls>>

\* Search, lines 1751-1759: GenBinaryQuery and ValidateBinaryQuery, which
\* answers either way; the failure is written to the status of
\* response->entities()
SearchGenBinaryQuery ==
    /\ rpc_pc = "gen_binary"
    /\ \E valid \in BOOLEAN :
          IF valid THEN GoOn(rpc_status, "extra_params")
          ELSE LET status == Status("SERVER_INVALID_BINARY_QUERY", "Generate wrong binary query tree")
               IN  /\ rpc_status' = status
                   /\ failed_at' = "binary"
                   /\ response' = [response EXCEPT !.entities_status = SET_RESPONSE(status)]
                   /\ returned' = "OK"
                   /\ rpc_pc' = "returned"
    /\ UNCHANGED <<call_vars, insert_params, rpc_request, search_boolean, search_query, engine_calls>>

\* the loops over request->extra_params() of Search, CreateCollection and
\* CreateIndex: json::parse of a value under EXTRA_PARAM_KEY throws
ExtraParamsThrow(extra_params) ==
    \E i \in 1..Len(extra_params) :
        extra_params[i].key = "params" /\ ~extra_params[i].value.parses

\* Search, lines 1761-1775: the partition tags and the extra parameters
SearchExtraParams ==
    /\ rpc_pc = "extra_params"
    /\ IF ExtraParamsThrow(rpc_request.extra_params) THEN Throw
       ELSE GoOn(rpc_status, "engine")
    /\ UNCHANGED <<call_vars, insert_params, rpc_request, search_boolean, search_query, engine_calls>>

\* Search, lines 1777-1813: req_handler_.Search and the response
SearchEngine ==
    /\ rpc_pc = "engine"
    /\ engine_calls' = engine_calls + 1
    /\ \E status \in EngineAnswers : Reply("engine", status)
    /\ UNCHANGED <<call_vars, insert_params, rpc_request, search_boolean, search_query>>

\* a FieldParam of a Mapping
FieldParam(name, extra_params) == [name |-> name, extra_params |-> extra_params]

\* the empty std::string
EmptyText == BadText("empty input")

\* CreateCollection, lines 734-754, the loop over the fields from field i on:
\* "duplicate", "exception" (json::parse of the field's first extra
\* parameter throws) or "ok"
RECURSIVE CreateCollectionFields(_, _)
CreateCollectionFields(fields, i) ==
    IF i > Len(fields) THEN "ok"
    ELSE IF \E j \in 1..(i - 1) : fields[j].name = fields[i].name THEN "duplicate"
    ELSE IF /\ fields[i].extra_params # <<>>
            /\ fields[i].extra_params[1].value # EmptyText
            /\ ~fields[i].extra_params[1].value.parses
    THEN "exception"
    ELSE CreateCollectionFields(fields, i + 1)

\* CreateCollection: how it is left, the status of the response and the
\* invocations of req_handler_.CreateCollection, the engine answering answer
CreateCollectionResult(request, answer) ==
    IF Len(request.fields) > MAXIMUM_FIELD_NUM
    THEN [returned |-> "OK", engine |-> 0, step |-> "fields",
          status |-> Status("SERVER_INVALID_FIELD_NUM",
                            "Maximum field's number should be limited to 64")]
    ELSE IF CreateCollectionFields(request.fields, 1) = "duplicate"
    THEN [returned |-> "OK", engine |-> 0, step |-> "fields",
          status |-> Status("SERVER_INVALID_FIELD_NAME",
                            "Collection mapping has duplicate field name")]
    ELSE IF CreateCollectionFields(request.fields, 1) = "exception"
            \/ ExtraParamsThrow(request.extra_params)
    THEN [returned |-> "exception", engine |-> 0, step |-> "", status |-> StatusOK]
    ELSE [returned |-> "OK", engine |-> 1, step |-> "engine", status |-> answer]

\* CreateCollection
CreateCollection ==
    /\ rpc_request.verb = "CreateCollection"
    /\ rpc_pc = "start"
    /\ \E answer \in EngineAnswers :
          LET result == CreateCollectionResult(rpc_request, answer)
          IN  /\ engine_calls' = engine_calls + result.engine
              /\ IF result.returned = "exception" THEN Throw
                 ELSE Reply(result.step, result.status)
    /\ UNCHANGED <<call_vars, insert_params, rpc_request, search_boolean, search_query>>

\* CreateIndex
CreateIndex ==
    /\ rpc_request.verb = "CreateIndex"
    /\ rpc_pc = "start"
    /\ IF ExtraParamsThrow(rpc_request.extra_params)
       THEN Throw /\ UNCHANGED engine_calls
       ELSE /\ engine_calls' = engine_calls + 1
            /\ \E answer \in EngineAnswers : Reply("engine", answer)
    /\ UNCHANGED <<call_vars, insert_params, rpc_request, search_boolean, search_query>>

\* the Mapping messages of the CreateCollection requests
Mapping(fields, extra_params) == Request("CreateCollection", BadText(""), <<>>, extra_params, fields, <<>>)

\* n fields with different names and no parameters
ManyFields(n) == [i \in 1..n |-> FieldParam(ToString(i), <<>>)]

CreateCollectionRequests ==
    { Mapping(fields, <<>>) :
        fields \in { <<>>, ManyFields(1), ManyFields(2), ManyFields(MAXIMUM_FIELD_NUM),
                     ManyFields(MAXIMUM_FIELD_NUM + 1),
                     <<FieldParam("age", <<>>), FieldParam("age", <<>>)>>,
                     ManyFields(MAXIMUM_FIELD_NUM) \o <<FieldParam("1", <<>>)>>,
                     <<FieldParam("age", <<KeyValuePair("params", EmptyText)>>)>>,
                     <<FieldParam("age", <<KeyValuePair("params", Text(JObject(<<"dim">>, <<JNumber(4)>>)))>>)>>,
                     <<FieldParam("age", <<KeyValuePair("params", BadText("parse error"))>>)>>,
                     <<FieldParam("age", <<KeyValuePair("params", BadText("parse error"))>>),
                       FieldParam("age", <<>>)>> } }
    \cup { Mapping(ManyFields(1), extra_params) : extra_params \in ExtraParamLists }

\* the IndexParam messages of the CreateIndex requests
CreateIndexRequests ==
    { Request("CreateIndex", BadText(""), <<>>, extra_params, <<>>, <<>>) :
        extra_params \in ExtraParamLists }

\* the status OnInsert writes to the response, from what OnInsert reports
InsertStatus(status) ==
    IF status = "OK" THEN StatusOK
    ELSE IF status = "engine failure"
    THEN Status("SERVER_COLLECTION_NOT_EXIST", "collection not exist")
    ELSE Status("SERVER_INVALID_ROWRECORD_ARRAY", status)

\* OnInsert for the call followed alone
RpcOnInsert ==
    /\ rpc_request.verb = "Insert"
    /\ rpc_pc = "start"
    /\ \E engine_ok \in BOOLEAN :
          LET result == OnInsert(rpc_request, engine_ok)
          IN  /\ engine_calls' = engine_calls + result.engine
              /\ insert_params' = IF result.engine = 1
                                  THEN Append(insert_params, InsertParamOf(rpc_request))
                                  ELSE insert_params
              /\ Reply(IF result.engine = 1 THEN "engine" ELSE "fields",
                       InsertStatus(result.status))
    /\ UNCHANGED <<call_vars, rpc_request, search_boolean, search_query>>

\* the fields of the generated insert requests: one variant with 1..MaxRows
\* values, vector records of 0..MaxRows rows, or two variants at once
FieldShapes ==
    { Field(n, 0, 0, 0, 0) : n \in 1..MaxRows }
    \cup { Field(0, n, 0, 0, 0) : n \in 1..MaxRows }
    \cup { Field(0, 0, 0, 0, n) : n \in 0..MaxRows }
    \cup { Field(1, MaxRows, 0, 0, 0) }

\* their id arrays: none, up to MaxRows + 1 ids, or a negative id
IdArrays == { [i \in 1..n |-> 7] : n \in 0..(MaxRows + 1) } \cup { <<7, -1>> }

\* the InsertParam messages of the Insert requests: no field, or up to
\* MaxFields of them
InsertParamRequests ==
    { Request("Insert", BadText(""), <<>>, <<>>, fields, ids) :
        fields \in {<<>>} \cup SeqsUpTo(FieldShapes, MaxFields), ids \in IdArrays }

(* ------------------------ context_map_mutex_ --------------------------- *)
(* The registry once more, with every std::lock_guard on                   *)
(* context_map_mutex_ taken and given up in steps of their own, for the    *)
(* handlers Cmd and Insert: a call that waits for the mutex stays where    *)
(* it is until the mutex is free.                                          *)

\* the ids the clients supply in the mutex specification
MutexClientIds == { <<"a">> }

\* request->cmd() of the Cmd requests
CmdNames == {"requests", "status"}

\* OnPostRecvInitialMetaData, lines 633-639, the client supplying id: the
\* lock_guard of the if-block is taken
ReserveLock(c) ==
    /\ pc[c] = "idle"
    /\ mutex = 0
    /\ mutex' = c
    /\ \E id \in MutexClientIds :
          /\ request_id' = [request_id EXCEPT ![c] = id]
          /\ supplied' = [supplied EXCEPT ![c] = id]
    /\ pc' = [pc EXCEPT ![c] = "reserve"]
    /\ UNCHANGED <<rpc_vars, sizes, requests, server_metadata, context_map, sequential_id, span_finished,
                   reserved, admission_vars>>

\* the holder of the mutex after the closing brace of the if-block, line 655:
\* the lock_guard is a local of the block
ReserveScopeEnd(c) == 0

\* OnPostRecvInitialMetaData, lines 640-655: the key is marked under the
\* mutex and the block ends
ReserveMark(c) ==
    /\ pc[c] = "reserve"
    /\ context_map' = Put(context_map, ReserveKey(context_map, request_id[c]), Null)
    /\ reserved' = [reserved EXCEPT ![c] = ReserveKey(context_map, request_id[c])]
    /\ request_id' = [request_id EXCEPT ![c] = IdAfterReserve(context_map, request_id[c])]
    /\ mutex' = ReserveScopeEnd(c)
    /\ pc' = [pc EXCEPT ![c] = "set_context"]
    /\ UNCHANGED <<rpc_vars, sizes, requests, server_metadata, sequential_id, span_finished, supplied,
                   admission_vars>>

\* SetContext, line 703: the lock_guard is taken
SetContextLock(c) ==
    /\ pc[c] = "set_context"
    /\ mutex = 0
    /\ mutex' = c
    /\ pc' = [pc EXCEPT ![c] = "set_context_in"]
    /\ UNCHANGED <<rpc_vars, sizes, requests, registry_vars, admission_vars>>

\* SetContext, lines 704-706: the entry is written and the function returns
SetContextStore(c) ==
    /\ pc[c] = "set_context_in"
    /\ context_map' = Put(context_map, SetContextKey(c), NewContext(c, request_id[c]))
    /\ request_id' = [request_id EXCEPT ![c] = NoId]
    /\ mutex' = 0
    /\ pc' = [pc EXCEPT ![c] = "handler"]
    /\ UNCHANGED <<rpc_vars, sizes, requests, server_metadata, sequential_id, span_finished, supplied,
                   reserved, admission_vars>>

\* the calls of GetContext(context) in Cmd and Insert: where the call stands
\* before it (at), inside it (in) and after it (next), and whether the
\* result is dereferenced (->ReqID()) or handed on to the engine
GetContextSites ==
    { [at |-> "handler",        in |-> "handler_in",        deref |-> TRUE,  next |-> "entered"],
      [at |-> "cmd_engine_get", in |-> "cmd_engine_get_in", deref |-> FALSE, next |-> "cmd_engine"],
      [at |-> "cmd_end",        in |-> "cmd_end_in",        deref |-> TRUE,  next |-> "pre_send"],
      [at |-> "ins_engine_get", in |-> "ins_engine_get_in", deref |-> FALSE, next |-> "ins_engine"] }

\* GetContext, line 685: the lock_guard is taken
GetContextLock(c) ==
    /\ mutex = 0
    /\ \E site \in GetContextSites :
          /\ pc[c] = site.at
          /\ pc' = [pc EXCEPT ![c] = site.in]
    /\ mutex' = c
    /\ UNCHANGED <<rpc_vars, sizes, requests, registry_vars, admission_vars>>

\* GetContext, lines 686-698: the lookup under the mutex and the return; the
\* caller dereferences the result or hands it on
GetContextReturn(c) ==
    /\ \E site \in GetContextSites :
          /\ pc[c] = site.in
          /\ \E next \in (IF site.deref THEN Deref(c, site.next) ELSE {site.next}) :
                pc' = [pc EXCEPT ![c] = next]
    /\ mutex' = 0
    /\ UNCHANGED <<rpc_vars, sizes, requests, registry_vars, admission_vars>>

\* Cmd, lines 1134-1136: the branch on request->cmd()
CmdBranch(c) ==
    /\ pc[c] = "entered"
    /\ \E cmd \in CmdNames :
          pc' = [pc EXCEPT ![c] = IF cmd = "requests" THEN "cmd_requests" ELSE "cmd_engine_get"]
    /\ UNCHANGED <<rpc_vars, mutex, sizes, requests, registry_vars, admission_vars>>

\* Cmd, line 1137: the lock_guard of the "requests" block is taken
CmdRequestsLock(c) ==
    /\ pc[c] = "cmd_requests"
    /\ mutex = 0
    /\ mutex' = c
    /\ pc' = [pc EXCEPT ![c] = "cmd_requests_in"]
    /\ UNCHANGED <<rpc_vars, sizes, requests, registry_vars, admission_vars>>

\* faulty variant: the lock_guard is a local of the function, not of the block
CmdRequestsScopeEnd_FunctionScope(c) == c

\* the holder of the mutex after the closing brace of the "requests" block,
\* line 1151: the lock_guard is a local of the block
CmdRequestsScopeEnd(c) == 0

\* Cmd, lines 1138-1151: the entries are listed under the mutex (the call's
\* own id is read with get_request_id, not GetContext) and the block ends
CmdRequestsList(c) ==
    /\ pc[c] = "cmd_requests_in"
    /\ mutex' = CmdRequestsScopeEnd(c)
    /\ pc' = [pc EXCEPT ![c] = "cmd_end"]
    /\ UNCHANGED <<rpc_vars, sizes, requests, registry_vars, admission_vars>>

\* Cmd, line 1153: req_handler_.Cmd returns
CmdEngine(c) ==
    /\ pc[c] = "cmd_engine"
    /\ pc' = [pc EXCEPT ![c] = "cmd_end"]
    /\ UNCHANGED <<rpc_vars, mutex, sizes, requests, registry_vars, admission_vars>>

\* faulty variant: Insert goes on to OnInsert without WaitToInsert
InsertSize_NoWait(c) ==
    /\ pc[c] = "entered"
    /\ \E size \in sizes : request_size' = [request_size EXCEPT ![c] = size]
    /\ pc' = [pc EXCEPT ![c] = "on_insert"]
    /\ UNCHANGED <<rpc_vars, mutex, sizes, requests, registry_vars, budget, insert_status, engine_insert,
                   held, n_wait, n_finish>>

\* Insert, line 1311: request_size = request->ByteSizeLong()
InsertSize(c) ==
    /\ pc[c] = "entered"
    /\ \E size \in sizes : request_size' = [request_size EXCEPT ![c] = size]
    /\ pc' = [pc EXCEPT ![c] = "wait"]
    /\ UNCHANGED <<rpc_vars, mutex, sizes, requests, registry_vars, budget, insert_status, engine_insert,
                   held, n_wait, n_finish>>

\* OnInsert, lines 1329-1403: the checks before the engine is called; a
\* request that fails them is answered at once
OnInsertCheck(c) ==
    /\ pc[c] = "on_insert"
    /\ \E request \in requests :
          IF OnInsert(request, TRUE).engine = 0
          THEN /\ insert_status' = [insert_status EXCEPT ![c] = OnInsert(request, TRUE).status]
               /\ pc' = [pc EXCEPT ![c] = AfterOnInsert(insert_status'[c])]
          ELSE /\ pc' = [pc EXCEPT ![c] = "ins_engine_get"]
               /\ UNCHANGED insert_status
    /\ UNCHANGED <<rpc_vars, mutex, sizes, requests, registry_vars, budget, request_size, engine_insert,
                   held, n_wait, n_finish>>

\* OnInsert, lines 1405-1419: req_handler_.Insert returns, with either answer
InsertEngine(c) ==
    /\ pc[c] = "ins_engine"
    /\ \E engine_ok \in BOOLEAN :
          insert_status' = [insert_status EXCEPT ![c] = IF engine_ok THEN "OK" ELSE "engine failure"]
    /\ engine_insert' = [engine_insert EXCEPT ![c] = 1]
    /\ pc' = [pc EXCEPT ![c] = AfterOnInsert(insert_status'[c])]
    /\ UNCHANGED <<rpc_vars, mutex, sizes, requests, registry_vars, budget, request_size, held, n_wait,
                   n_finish>>

\* OnPreSendMessage, line 671: the lock_guard is taken
PreSendLock(c) ==
    /\ pc[c] = "pre_send"
    /\ mutex = 0
    /\ mutex' = c
    /\ pc' = [pc EXCEPT ![c] = "pre_send_in"]
    /\ UNCHANGED <<rpc_vars, sizes, requests, registry_vars, admission_vars>>

\* OnPreSendMessage, lines 672-681, under the mutex, and the return; a fault
\* ends the process, the mutex is then no longer held by any running call
PreSendFinish(c) ==
    /\ pc[c] = "pre_send_in"
    /\ \E out \in PreSendOutcomes(c) :
         LET key == get_request_id(server_metadata[c])
         IN  /\ pc' = [pc EXCEPT ![c] = IF out = "fault" THEN "send_fault" ELSE "done"]
             /\ context_map' = IF out \in {"erase", "finish"}
                               THEN Erase(context_map, key) ELSE context_map
             /\ span_finished' =
                  IF out = "finish"
                  THEN [span_finished EXCEPT ![context_map[key].owner] = Append(@, c)]
                  ELSE span_finished
    /\ mutex' = 0
    /\ insert_status' = [insert_status EXCEPT ![c] = ""]
    /\ engine_insert' = [engine_insert EXCEPT ![c] = 0]
    /\ UNCHANGED <<rpc_vars, sizes, requests, server_metadata, request_id, sequential_id, supplied, reserved,
                   budget, request_size, held, n_wait, n_finish>>

(* -------------------------------- codec -------------------------------- *)
(* The byte buffers of the codec.  A byte is told apart by where it comes  *)
(* from: byte k of a column the engine returns is k, the bytes of the      *)
(* variants of a wire field carry the number of their variant, and a byte  *)
(* that no buffer gave (an indeterminate value) is 0.                      *)

\* sizeof(T) of the scalar types
sizeof(type) ==
    CASE type = "INT32"  -> 4
      [] type = "INT64"  -> 8
      [] type = "FLOAT"  -> 4
      [] type = "DOUBLE" -> 8

\* n bytes that no buffer gave: indeterminate, or zero-filled
Unsourced(n) == [i \in 1..n |-> 0]

\* the bytes of the buffers ss, one after the other
RECURSIVE Flatten(_)
Flatten(ss) == IF ss = <<>> THEN <<>> ELSE Head(ss) \o Flatten(Tail(ss))

\* the elements of width bytes that the buffer bytes holds
Elements(bytes, width) ==
    [i \in 1..(Len(bytes) \div width) |-> SubSeq(bytes, (i - 1) * width + 1, i * width)]

\* a VectorRowRecord: its float_data (4 bytes each) and its binary_data
VectorRowRecord(float_data, binary_data) == [float_data |-> float_data, binary_data |-> binary_data]

\* a FieldValue of the wire: name, type, the variants of its attr_record and
\* the records of its vector_record
FieldValue(name, type, i32, i64, f, d, records) ==
    [field_name |-> name, type |-> type, int32_value |-> i32, int64_value |-> i64,
     float_value |-> f, double_value |-> d, records |-> records]

\* the element counts OnInsert reads from a FieldValue, lines 1358-1361
FieldSizes(field) ==
    Field(Len(field.int32_value), Len(field.int64_value), Len(field.float_value),
          Len(field.double_value), Len(field.records))

\* faulty variant: the vector records are looked at first
FieldVariant_VectorFirst(f) ==
    IF f.records_size > 0 THEN "vector"
    ELSE IF f.int32_value_size > 0 THEN "int32"
    ELSE IF f.int64_value_size > 0 THEN "int64"
    ELSE IF f.float_value_size > 0 THEN "float"
    ELSE IF f.double_value_size > 0 THEN "double"
    ELSE "vector"

\* OnInsert, lines 1365-1393: the branch taken for a field
FieldVariant(f) ==
    IF f.int32_value_size > 0 THEN "int32"
    ELSE IF f.int64_value_size > 0 THEN "int64"
    ELSE IF f.float_value_size > 0 THEN "float"
    ELSE IF f.double_value_size > 0 THEN "double"
    ELSE "vector"

\* faulty variant: the element count is taken for the byte count
RecordDataAddr_CountAsBytes(num, data) == SubSeq(Flatten(data), 1, num)

\* RecordDataAddr<T>(field_name, num, data, insert_param): the span of
\* num * sizeof(T) bytes at data, data being the elements there
RecordDataAddr(num, data) == Flatten(SubSeq(data, 1, num))

\* the sum of the lengths of the buffers ss
RECURSIVE TotalLen(_)
TotalLen(ss) == IF ss = <<>> THEN 0 ELSE Len(Head(ss)) + TotalLen(Tail(ss))

\* float_data_size and binary_data_size of RecordVectorDataAddr and
\* CopyRowRecords
FloatDataSize(records) == TotalLen([i \in 1..Len(records) |-> records[i].float_data])
BinaryDataSize(records) == TotalLen([i \in 1..Len(records) |-> records[i].binary_data])

\* RecordVectorDataAddr(field_name, grpc_records, insert_param): the spans
\* it appends, one per record
RecordVectorDataAddr(records) ==
    IF FloatDataSize(records) > 0
    THEN [i \in 1..Len(records) |->
             RecordDataAddr(Len(records[i].float_data), records[i].float_data)]
    ELSE IF BinaryDataSize(records) > 0
    THEN [i \in 1..Len(records) |->
             RecordDataAddr(Len(records[i].binary_data),
                            Elements(records[i].binary_data, 1))]
    ELSE <<>>

\* CopyRowRecords(grpc_records, grpc_id_array, vectors) with no ids: both
\* arrays are made with the summed sizes and zero-filled, one is copied into
CopyRowRecords(records) ==
    [vector_count_ |-> Len(records),
     float_data_ |->
         IF FloatDataSize(records) > 0
         THEN Flatten([i \in 1..Len(records) |-> Flatten(records[i].float_data)])
         ELSE <<>>,
     binary_data_ |->
         IF FloatDataSize(records) > 0
         THEN Unsourced(BinaryDataSize(records))
         ELSE Flatten([i \in 1..Len(records) |-> records[i].binary_data])]

\* OnInsert, lines 1365-1393, for one field: the variant taken, the count
\* given to valid_row_count and the spans appended to fields_data_
RecordField(field) ==
    LET variant == FieldVariant(FieldSizes(field))
        count   == FieldRowCount(FieldSizes(field))
    IN  [variant |-> variant,
         count |-> count,
         spans |-> CASE variant = "int32"  -> <<RecordDataAddr(count, field.int32_value)>>
                     [] variant = "int64"  -> <<RecordDataAddr(count, field.int64_value)>>
                     [] variant = "float"  -> <<RecordDataAddr(count, field.float_value)>>
                     [] variant = "double" -> <<RecordDataAddr(count, field.double_value)>>
                     [] variant = "vector" -> RecordVectorDataAddr(field.records)]

\* the field loop of OnInsert over fields that valid_row_count lets pass
RecordFields(fields) == [i \in 1..Len(fields) |-> RecordField(fields[i])]

\* a column of a DataChunk: data->data_ of fixed_fields_[name], under the
\* type of its field mapping
Column(name, type, data) == [field_name |-> name, type |-> type, data |-> data]

\* CopyDataChunkToEntity, line 283
SingleSize(data, id_size) == IF id_size # 0 THEN Len(data) \div id_size ELSE 0

\* faulty variant: every row is read at the start of the column
Row_NoOffset(data, i, single_size) == SubSeq(data, 1, single_size)

\* the bytes memcpy reads for row i (from 0): single_size bytes at offset
\* i * single_size
Row(data, i, single_size) == SubSeq(data, i * single_size + 1, (i + 1) * single_size)

\* memcpy(&value, data + offset, single_size) into a value of the type and
\* add_..._value(value): the bytes of the value put on the wire
ScalarValue(type, data, i, single_size) ==
    IF single_size >= sizeof(type)
    THEN SubSeq(Row(data, i, single_size), 1, sizeof(type))
    ELSE Row(data, i, single_size) \o Unsourced(sizeof(type) - single_size)

\* the memcpy of CopyDataChunkToEntity into the local value or into
\* float_vector is undefined: it writes past the destination, or the value
\* put on the wire was not written in full
Undefined(column, id_size) ==
    /\ column.data # <<>>
    /\ id_size > 0
    /\ CASE column.type = "VECTOR_BINARY" -> FALSE
         [] column.type = "VECTOR_FLOAT"  -> SingleSize(column.data, id_size) % 4 # 0
         [] OTHER -> SingleSize(column.data, id_size) # sizeof(column.type)

\* CopyDataChunkToEntity, lines 285-353: the FieldValue added for a column
\* that has data
CopyColumn(column, id_size) ==
    LET single_size == SingleSize(column.data, id_size)
        rows == [k \in 1..id_size |-> Row(column.data, k - 1, single_size)]
        values == [k \in 1..id_size |-> ScalarValue(column.type, column.data, k - 1, single_size)]
        none == <<>>
    IN  CASE column.type = "VECTOR_BINARY" ->
               FieldValue(column.field_name, column.type, none, none, none, none,
                          [k \in 1..id_size |-> VectorRowRecord(<<>>, rows[k])])
          [] column.type = "VECTOR_FLOAT" ->
               FieldValue(column.field_name, column.type, none, none, none, none,
                          [k \in 1..id_size |-> VectorRowRecord(Elements(rows[k], 4), <<>>)])
          [] column.type = "INT32" ->
               FieldValue(column.field_name, column.type, values, none, none, none, none)
          [] column.type = "INT64" ->
               FieldValue(column.field_name, column.type, none, values, none, none, none)
          [] column.type = "DOUBLE" ->
               FieldValue(column.field_name, column.type, none, none, none, values, none)
          [] column.type = "FLOAT" ->
               FieldValue(column.field_name, column.type, none, none, values, none, none)

\* CopyDataChunkToEntity(data_chunk, field_mappings, id_size, response): the
\* fields added to the response, one per column that has data
CopyDataChunkToEntity(data_chunk, id_size) ==
    IF data_chunk.null THEN <<>>
    ELSE LET present == SelectSeq(data_chunk.columns, LAMBDA column : column.data # <<>>)
         IN  [k \in 1..Len(present) |-> CopyColumn(present[k], id_size)]

\* a DataChunkPtr: null, or the columns of its fixed_fields_ in the order of
\* the field mappings
DataChunk(columns) == [null |-> FALSE, columns |-> columns]

NullChunk == [null |-> TRUE, columns |-> <<>>]

\* the number of true entries of valid_row
ValidSize(valid_row) == Cardinality({ i \in 1..Len(valid_row) : valid_row[i] })

\* Search, lines 1789-1797: the entries added to valid_row for the result ids
SearchValidRow(result_ids) == [i \in 1..Len(result_ids) |-> result_ids[i] # -1]

\* Search, lines 1789-1797: id_size after the loop over the result ids
SearchIdSize(result_ids) ==
    Len(result_ids) - Cardinality({ i \in 1..Len(result_ids) : result_ids[i] = -1 })

\* an Entities message nothing was written to
NewEntities == [ids |-> <<>>, valid_row |-> <<>>, fields |-> <<>>]

\* an engine::VectorsData nothing was written to
NewVectorsData == [vector_count_ |-> 0, float_data_ |-> <<>>, binary_data_ |-> <<>>]

\* what the codec is given: by the engine, the ids, valid_row and the data
\* chunk; by the peer, the fields of an InsertParam or the records of a
\* vector parameter
CodecRequest(verb, ids, valid_row, data_chunk, fields) ==
    [verb |-> verb, ids |-> ids, valid_row |-> valid_row, data_chunk |-> data_chunk,
     fields |-> fields]

NoCodecRequest == CodecRequest("", <<>>, <<>>, NullChunk, <<>>)

\* how a marshalling can end: with undefined behaviour in it, the process
\* may end or go on with the bytes it happens to hold
MarshalOutcomes(data_chunk, id_size) ==
    IF \E i \in 1..Len(data_chunk.columns) : Undefined(data_chunk.columns[i], id_size)
    THEN {"fault", "rows"} ELSE {"rows"}

\* the Entities message is filled from ids, valid_row and the data chunk
\* and the handler goes on to return, or the process ends in
\* CopyDataChunkToEntity
Marshal(ids, valid_row, data_chunk, id_size) ==
    \E outcome \in MarshalOutcomes(data_chunk, id_size) :
        IF outcome = "fault"
        THEN codec_pc' = "fault" /\ UNCHANGED entities
        ELSE /\ codec_pc' = "returned"
             /\ entities' = [ids |-> ids,
                             valid_row |-> valid_row,
                             fields |-> CopyDataChunkToEntity(data_chunk, id_size)]

\* GetEntityByID, lines 888-907: req_handler_.GetEntityByID has filled
\* valid_row and data_chunk; the response is the Entities message, whose
\* status SET_RESPONSE writes last
GetEntityByID ==
    /\ codec_request.verb = "GetEntityByID"
    /\ codec_pc = "start"
    /\ Marshal(codec_request.ids, codec_request.valid_row, codec_request.data_chunk,
               ValidSize(codec_request.valid_row))
    /\ \E status \in EngineAnswers :
          response' = IF codec_pc' = "fault" THEN response
                      ELSE [status |-> SET_RESPONSE(status), entities_status |-> SET_RESPONSE(status)]
    /\ UNCHANGED <<pc, mutex, sizes, requests, registry_vars, admission_vars, handler_vars,
                   codec_request, fields_data, vectors>>

\* Search, lines 1780-1811: req_handler_.Search has filled result; the
\* entities are those of the QueryResult response, whose own status
\* SET_RESPONSE writes
SearchResult ==
    /\ codec_request.verb = "Search"
    /\ codec_pc = "start"
    /\ \E status \in EngineAnswers :
          IF status # StatusOK
          THEN /\ response' = [response EXCEPT !.status = SET_RESPONSE(status)]
               /\ codec_pc' = "returned"
               /\ UNCHANGED entities
          ELSE /\ Marshal(codec_request.ids, SearchValidRow(codec_request.ids),
                          codec_request.data_chunk, SearchIdSize(codec_request.ids))
               /\ response' = IF codec_pc' = "fault" THEN response
                              ELSE [response EXCEPT !.status = SET_RESPONSE(status)]
    /\ UNCHANGED <<pc, mutex, sizes, requests, registry_vars, admission_vars, handler_vars,
                   codec_request, fields_data, vectors>>

\* the peer sends the fields of the response back in an InsertParam: the
\* field loop of OnInsert, lines 1357-1394
ReInsert ==
    /\ codec_pc = "returned"
    /\ fields_data' = RecordFields(entities.fields)
    /\ codec_pc' = "reinserted"
    /\ UNCHANGED <<pc, mutex, sizes, requests, registry_vars, admission_vars, handler_vars,
                   response, codec_request, entities, vectors>>

\* OnInsert, lines 1357-1394, on the fields of an InsertParam
InsertFields ==
    /\ codec_request.verb = "Insert"
    /\ codec_pc = "start"
    /\ fields_data' = RecordFields(codec_request.fields)
    /\ codec_pc' = "recorded"
    /\ UNCHANGED <<pc, mutex, sizes, requests, registry_vars, admission_vars, handler_vars,
                   response, codec_request, entities, vectors>>

\* DeserializeDslToBoolQuery, lines 1695-1700: CopyRowRecords on the records
\* of the vector parameter
QueryVectors ==
    /\ codec_request.verb = "SearchVectors"
    /\ codec_pc = "start"
    /\ vectors' = CopyRowRecords(codec_request.fields[1].records)
    /\ codec_pc' = "copied"
    /\ UNCHANGED <<pc, mutex, sizes, requests, registry_vars, admission_vars, handler_vars,
                   response, codec_request, entities, fields_data>>

\* the widest vector of the generated columns, in floats or in bytes
MaxDim == 2

\* a column of n bytes as the engine holds it
Iota(n) == [i \in 1..n |-> i]

\* the types and the bytes one row of them takes
RowWidths ==
    { <<type, sizeof(type)>> : type \in {"INT32", "INT64", "FLOAT", "DOUBLE"} }
    \cup { <<"VECTOR_FLOAT", 4 * dim>> : dim \in 1..MaxDim }
    \cup { <<"VECTOR_BINARY", dim>> : dim \in 1..MaxDim }

\* columns of n rows
WellFormedColumns(name, n) == { Column(name, tw[1], Iota(n * tw[2])) : tw \in RowWidths }

\* columns of n rows and one byte more
CorruptColumns(name, n) ==
    IF n < 2 THEN {} ELSE { Column(name, tw[1], Iota(n * tw[2] + 1)) : tw \in RowWidths }

\* columns whose rows do not have the width of their type, or that have
\* bytes without rows
IllTypedColumns(name, n) ==
    IF n = 0 THEN { Column(name, "INT32", Iota(4)) }
    ELSE { Column(name, "INT32", Iota(n * 8)), Column(name, "INT64", Iota(n * 4)),
           Column(name, "VECTOR_FLOAT", Iota(n * 6)) }

\* the data chunks the engine returns for n valid rows
DataChunks(n) ==
    { NullChunk, DataChunk(<<>>) }
    \cup { DataChunk(<<column>>) :
              column \in WellFormedColumns("f1", n) \cup CorruptColumns("f1", n)
                         \cup IllTypedColumns("f1", n) }
    \cup { DataChunk(<<Column("f1", "INT32", Iota(n * 4)), column>>) :
              column \in WellFormedColumns("f2", n) \cup CorruptColumns("f2", n) }

\* valid_row for up to MaxRows + 1 ids, at most MaxRows of them valid
ValidRows ==
    { valid_row \in UNION { [1..k -> BOOLEAN] : k \in 0..(MaxRows + 1) } :
        ValidSize(valid_row) <= MaxRows }

\* result_ids_ of up to MaxRows + 1 ids, at most MaxRows of them found, -1
\* for a missing one
ResultIds ==
    { result_ids \in UNION { [1..k -> {-1, 7}] : k \in 0..(MaxRows + 1) } :
        SearchIdSize(result_ids) <= MaxRows }

\* the results of req_handler_.GetEntityByID: an entry of valid_row per
\* requested id
GetEntityByIDResults ==
    UNION { { CodecRequest("GetEntityByID", [i \in 1..Len(valid_row) |-> 7 + i], valid_row,
                           data_chunk, <<>>) :
                data_chunk \in DataChunks(ValidSize(valid_row)) } : valid_row \in ValidRows }

\* the results of req_handler_.Search
SearchResults ==
    UNION { { CodecRequest("Search", result_ids, <<>>, data_chunk, <<>>) :
                data_chunk \in DataChunks(SearchIdSize(result_ids)) } : result_ids \in ResultIds }

\* n elements of width bytes of the variant numbered code
Values(code, n, width) ==
    [k \in 1..n |-> [b \in 1..width |-> code * 100 + (k - 1) * width + b]]

\* the records of a vector field: no record, or up to MaxRows records with
\* or without one float and with or without one byte
RecordChoices ==
    { <<>> } \cup
    UNION { { [i \in 1..k |-> VectorRowRecord(Values(5, shape[i][1], 4),
                                               Flatten(Values(6, shape[i][2], 1)))] :
                shape \in [1..k -> {0, 1} \X {0, 1}] } : k \in 1..MaxRows }

\* the fields of the InsertParam messages: every variant with 0..MaxRows
\* elements
InsertFieldValues ==
    { FieldValue("f1", "", Values(1, c[1], 4), Values(2, c[2], 8), Values(3, c[3], 4),
                 Values(4, c[4], 8), records) :
        c \in [1..4 -> 0..MaxRows], records \in RecordChoices }

CodecRequests ==
    GetEntityByIDResults \cup SearchResults
    \cup { CodecRequest("Insert", <<>>, <<>>, NullChunk, <<field>>) : field \in InsertFieldValues }
    \cup { CodecRequest("SearchVectors", <<>>, <<>>, NullChunk,
                        <<FieldValue("", "", <<>>, <<>>, <<>>, <<>>, records)>>) :
             records \in RecordChoices }

(* --------------------------- specifications ---------------------------- *)

\* request->ByteSizeLong() of the insert requests the peers send
SizeChoices == {0, 1, Budget - 1, Budget, Budget + 1}

InitState ==
    /\ pc = [c \in Calls |-> "idle"]
    /\ mutex = 0
    /\ server_metadata = [c \in Calls |-> NoId]
    /\ request_id = [c \in Calls |-> NoId]
    /\ context_map = <<>>
    /\ sequential_id = 0
    /\ span_finished = [c \in Calls |-> <<>>]
    /\ supplied = [c \in Calls |-> NoId]
    /\ reserved = [c \in Calls |-> NoId]
    /\ budget = Budget
    /\ request_size = [c \in Calls |-> 0]
    /\ insert_status = [c \in Calls |-> ""]
    /\ engine_insert = [c \in Calls |-> 0]
    /\ held = [c \in Calls |-> 0]
    /\ n_wait = [c \in Calls |-> 0]
    /\ n_finish = [c \in Calls |-> 0]
    /\ rpc_pc = "start"
    /\ search_boolean = NewBooleanQuery
    /\ search_query = NewQuery
    /\ rpc_status = StatusOK
    /\ failed_at = ""
    /\ response = NewResponse
    /\ returned = ""
    /\ engine_calls = 0
    /\ insert_params = <<>>
    /\ codec_pc = "start"
    /\ entities = NewEntities
    /\ fields_data = <<>>
    /\ vectors = NewVectorsData

Init ==
    /\ InitState /\ sizes = SizeChoices /\ requests = InsertRequests /\ rpc_request = NoRequest
    /\ codec_request = NoCodecRequest

\* the registry: the interceptor hooks and the handlers' use of GetContext
Next ==
    \E c \in Calls :
        \/ BeginExtractFails(c)
        \/ BeginClientId(c)
        \/ BeginSequentialId(c)
        \/ SetContext(c)
        \/ HasCollectionBegin(c)
        \/ HasCollectionEngine(c)
        \/ HasCollectionEnd(c)
        \/ InsertBegin(c)
        \/ InsertRest(c)
        \/ OnPreSendMessage(c)

Spec == Init /\ [][Next]_vars

\* the steps an Insert call with a server-generated id takes when its
\* worker thread is scheduled
InsertThread(c) ==
    \/ BeginSequentialId(c)
    \/ SetContext(c)
    \/ InsertBegin(c)
    \/ WaitToInsert(c)
    \/ InsertOnInsert(c)
    \/ FinishInsert(c)
    \/ FinishInsertNotify(c)
    \/ OnPreSendMessage(c)

NextAdmission == \E c \in Calls : InsertThread(c) \/ SpuriousWakeup(c)

\* every worker thread that can take a step is scheduled in the end; a
\* spurious wake-up need never happen
Fairness == \A c \in Calls : WF_vars(InsertThread(c))

SpecAdmission == Init /\ [][NextAdmission]_vars /\ Fairness

\* inserts of well-formed requests of three sizes: small, all but one byte of
\* the budget, and the whole budget
InitWakeup ==
    /\ InitState
    /\ sizes = {1, Budget - 1, Budget}
    /\ requests = { r \in InsertRequests : OnInsert(r, TRUE).status = "OK" /\ r.fields # <<>> }
    /\ rpc_request = NoRequest
    /\ codec_request = NoCodecRequest

SpecWakeup == InitWakeup /\ [][NextAdmission]_vars /\ Fairness

\* NumCalls inserts, each of size Budget / NumCalls
InitSmall ==
    /\ InitState
    /\ sizes = {Budget \div NumCalls}
    /\ requests = InsertRequests
    /\ rpc_request = NoRequest
    /\ codec_request = NoCodecRequest

NextSmall == \E c \in Calls : InsertThread(c)

SpecSmall == InitSmall /\ [][NextSmall]_vars /\ Fairness

\* the calls with the mutex in steps of its own: inserts of all but one byte
\* of the budget (the first is admitted, a second one sleeps), one
\* well-formed and one ill-formed request
InitMutex ==
    /\ InitState
    /\ sizes = {Budget - 1}
    /\ requests = { r \in InsertRequests : HasNegativeId(r.entity_id_array)
                                           \/ r.entity_id_array = <<7, 8>> }
    /\ rpc_request = NoRequest
    /\ codec_request = NoCodecRequest

NextMutex ==
    \E c \in Calls :
        \/ ReserveLock(c)
        \/ ReserveMark(c)
        \/ BeginSequentialId(c)
        \/ SetContextLock(c)
        \/ SetContextStore(c)
        \/ GetContextLock(c)
        \/ GetContextReturn(c)
        \/ CmdBranch(c)
        \/ CmdRequestsLock(c)
        \/ CmdRequestsList(c)
        \/ CmdEngine(c)
        \/ InsertSize(c)
        \/ WaitToInsert(c)
        \/ SpuriousWakeup(c)
        \/ OnInsertCheck(c)
        \/ InsertEngine(c)
        \/ FinishInsert(c)
        \/ FinishInsertNotify(c)
        \/ PreSendLock(c)
        \/ PreSendFinish(c)

SpecMutex == InitMutex /\ [][NextMutex]_vars

\* one call of Search, CreateCollection or CreateIndex on a request of the
\* bounded sets
RpcRequests ==
    SearchRequests \cup CreateCollectionRequests \cup CreateIndexRequests
    \cup InsertParamRequests

InitRpc ==
    /\ InitState
    /\ sizes = {}
    /\ requests = {}
    /\ rpc_request \in RpcRequests
    /\ codec_request = NoCodecRequest

NextRpc ==
    \/ SearchGetCollectionInfo
    \/ SearchDeserialize
    \/ SearchValidateBooleanQuery
    \/ SearchGenBinaryQuery
    \/ SearchExtraParams
    \/ SearchEngine
    \/ CreateCollection
    \/ CreateIndex
    \/ RpcOnInsert

SpecRpc == InitRpc /\ [][NextRpc]_vars

\* the codec: an engine result is marshalled into the response and sent
\* back for insertion, the fields of an insert request are recorded, the
\* records of a vector parameter are copied
InitCodec ==
    /\ InitState
    /\ sizes = {}
    /\ requests = {}
    /\ rpc_request = NoRequest
    /\ codec_request \in CodecRequests

NextCodec ==
    \/ GetEntityByID
    \/ SearchResult
    \/ ReInsert
    \/ InsertFields
    \/ QueryVectors

SpecCodec == InitCodec /\ [][NextCodec]_vars

(* ------------------------- admission: claims --------------------------- *)

\* calls that have returned from WaitToInsert and not yet run FinishInsert
Admitted == { c \in Calls : pc[c] \in {"on_insert", "finish_insert"} }

\* calls inside WaitToInsert
Blocked == { c \in Calls : pc[c] \in {"wait", "cv_wait"} }

\* calls inside Insert
InInsert == { c \in Calls : pc[c] \in {"wait", "cv_wait", "on_insert", "finish_insert", "notify"} }

RECURSIVE SumSize(_)
SumSize(S) ==
    IF S = {} THEN 0
    ELSE LET c == CHOOSE x \in S : TRUE IN request_size[c] + SumSize(S \ {c})

\* C1: in every reachable state the sizes of the requests that have returned
\* from WaitToInsert and not yet run FinishInsert sum to at most the budget B.
C1_AdmissionSafety == SumSize(Admitted) <= Budget

\* two requests of non-zero size are admitted together
C1_Witness ==
    \E c, d \in Admitted : c # d /\ request_size[c] > 0 /\ request_size[d] > 0

\* the arithmetic premise of C2: N inserts of size s = B / N with N * s < B
SmallPremise == NumCalls * (Budget \div NumCalls) < Budget

\* C2: with N inserts of size B / N (N * (B / N) < B), under weak fairness
\* every call returns from WaitToInsert, and in no reachable state is a call
\* in WaitToInsert unable to pass: none sleeps, and the predicate holds for
\* every call that waits, whatever was admitted or released before.
C2_SmallRequestsAdmitted ==
    /\ \A c \in Calls : <>(SmallPremise => n_wait[c] = 1)
    /\ [](SmallPremise =>
            \A c \in Calls : /\ pc[c] # "cv_wait"
                             /\ pc[c] = "wait" => WaitPredicate(budget, request_size[c]))

\* all N requests are admitted together and none has released yet
C2_Witness ==
    /\ SmallPremise
    /\ Admitted = Calls
    /\ \A c \in Calls : n_finish[c] = 0 /\ request_size[c] = Budget \div NumCalls

\* C3: an insert whose size is equal to or greater than the budget B never
\* returns from WaitToInsert: no call past WaitToInsert has such a size.
C3_OversizedNeverAdmitted ==
    \A c \in Calls :
        pc[c] \in {"on_insert", "finish_insert", "notify"} => request_size[c] < Budget

\* a request of size B sleeps in WaitToInsert while no other insert is in
\* flight, the whole budget is free and another call has already released
C3_Witness ==
    \E c, d \in Calls :
        /\ pc[c] = "cv_wait" /\ request_size[c] = Budget
        /\ InInsert = {c} /\ budget = Budget
        /\ n_finish[d] = 1

\* C4: every Insert that returned from WaitToInsert runs FinishInsert exactly
\* once, with the size it acquired, whatever OnInsert reported; so with no
\* Insert in flight the budget is the configured budget B.
C4_AcquireReleasePaired ==
    /\ \A c \in Calls :
          /\ n_finish[c] <= n_wait[c] /\ n_wait[c] <= 1
          /\ c \in Admitted => n_wait[c] = 1 /\ n_finish[c] = 0 /\ held[c] = request_size[c]
          /\ pc[c] \in {"notify", "pre_send", "done"} =>
                n_wait[c] = 1 /\ n_finish[c] = 1 /\ held[c] = 0
    /\ InInsert = {} => budget = Budget

\* Insert has returned after an OnInsert that failed on the row counts, and
\* its bytes are back
C4_Witness ==
    \E c \in Calls :
        /\ pc[c] = "pre_send" /\ insert_status[c] = "Field row count inconsist"
        /\ n_finish[c] = 1 /\ budget = Budget

\* C5: no wake-up is lost: a call cannot stay in WaitToInsert for ever while
\* budget - size > 0 holds from some point on; in particular a request of size
\* s < B is admitted in the end, the other inserts releasing and no further
\* ones arriving.
C5_NoLostWakeup ==
    /\ \A c \in Calls :
          []<>~(c \in Blocked /\ WaitPredicate(budget, request_size[c]))
    /\ \A c \in Calls :
          (c \in Blocked /\ request_size[c] < Budget) ~> (pc[c] = "on_insert")

\* a call sleeps on the condition variable, the budget now suffices for it,
\* and the releasing call is about to notify
C5_Witness ==
    \E c, d \in Calls :
        /\ pc[c] = "cv_wait" /\ pc[d] = "notify"
        /\ WaitPredicate(budget, request_size[c])

(* -------------------------- registry: claims --------------------------- *)

\* calls between OnPostRecvInitialMetaData and the end of OnPreSendMessage
InFlight == { c \in Calls : pc[c] \notin {"idle", "done", "fault", "send_fault"} }

\* calls whose OnPostRecvInitialMetaData has made and set a context
Registered ==
    { c \in Calls : /\ pc[c] \notin {"idle", "set_context"}
                    /\ (supplied[c] # NoId \/ server_metadata[c] # NoId) }

\* C6: a call supplying an id X that another call in flight already uses is
\* assigned X_n (n >= 1), and X_n is the id of its Context and the key under
\* which that Context is registered.
C6_SecondCallGetsSuffixedId ==
    \A c \in Registered \cap InFlight :
        (supplied[c] # NoId /\ reserved[c] # supplied[c]) =>
            /\ \E n \in 1..NumCalls : reserved[c] = Suffixed(supplied[c], n)
            /\ Present(context_map, reserved[c])
            /\ context_map[reserved[c]] = NewContext(c, reserved[c])

\* the registry entry under k holds the Context of call d
Belongs(k, d) == Present(context_map, k) /\ context_map[k].owner = d

\* call c takes a step of OnPostRecvInitialMetaData (its SetContext included)
BeginStep(c) == pc[c] \in {"idle", "set_context"} /\ pc'[c] # pc[c]

\* C7: no step of OnPostRecvInitialMetaData replaces or re-points a registry
\* entry that belongs to another call still in flight (stated for the entries
\* that hold a Context).
C7_BeginNeverOverwrites ==
    [][\A c \in Calls : BeginStep(c) =>
          \A d \in InFlight \ {c} : \A k \in DOMAIN context_map :
              Belongs(k, d) => (k \in DOMAIN context_map' /\ context_map'[k] = context_map[k])
      ]_vars

\* C8: for every call whose context was created, OnPreSendMessage finishes
\* that call's own span and removes its entry: at the end of the call its span
\* has been finished exactly once, by the call itself, and such a call
\* finishes no other call's span.
C8_OwnSpanFinishedOnce ==
    /\ \A c \in Registered : pc[c] = "done" => span_finished[c] = <<c>>
    /\ \A c \in Calls : \A i \in 1..Len(span_finished[c]) :
          span_finished[c][i] \in Registered => span_finished[c][i] = c

\* C9: a handler that gets a null context from GetContext still runs to
\* completion: no handler faults.
C9_NullContextNotFatal == \A c \in Calls : pc[c] # "fault"

\* C10: once OnPreSendMessage has run for a call, the registry holds no entry
\* the call created (neither its reserved key nor its Context); with no call
\* in flight the registry is empty.
C10_NoEntryOutlivesCall ==
    /\ \A c \in Calls : pc[c] = "done" =>
          /\ ~(reserved[c] # NoId /\ Present(context_map, reserved[c])
               /\ context_map[reserved[c]] = Null)
          /\ \A k \in DOMAIN context_map : context_map[k].owner # c
    /\ InFlight = {} => context_map = <<>>

\* calls that took their id from _sequential_id and have not yet run SetContext
Generating == { c \in Calls : pc[c] = "set_context" /\ server_metadata[c] # NoId }

\* C29: the id a call takes from the atomic counter differs from the id
\* generated for every other call, and it is not a key of the registry: in
\* particular not the key reserved for a client-supplied id of a call still in
\* flight, so that the SetContext that follows replaces no other call's entry.
C29_GeneratedIdIsFresh ==
    \A c \in Generating :
        /\ \A d \in Calls \ {c} : server_metadata[d] # server_metadata[c]
        /\ \A d \in InFlight \ {c} :
              ~(reserved[d] = server_metadata[c] /\ Present(context_map, reserved[d]))

(* --------------------------- mutex: claims ----------------------------- *)

\* positions inside a downstream engine call or inside WaitToInsert
Blocking == {"cmd_engine", "ins_engine", "wait", "cv_wait"}

\* positions at which a call is about to take context_map_mutex_
LockAttempt == {"set_context", "handler", "cmd_engine_get", "cmd_end", "ins_engine_get",
                "cmd_requests", "pre_send"}

\* C11: no call holds context_map_mutex_ while it is inside an engine call
\* (req_handler_) or inside the admission wait, and no call that holds the
\* mutex is about to take it again; so whenever the mutex is held, its holder
\* can take the step that gives it up.
C11_MutexNeverHeldWhileBlocked ==
    /\ \A c \in Calls : pc[c] \in Blocking \cup LockAttempt => mutex # c
    /\ \A c \in Calls : mutex = c =>
          ENABLED (ReserveMark(c) \/ SetContextStore(c) \/ GetContextReturn(c)
                   \/ CmdRequestsList(c) \/ PreSendFinish(c))

\* one call sleeps in the admission wait while another call holds the mutex
C11_Witness ==
    \E c, d \in Calls :
        /\ pc[c] = "cv_wait"
        /\ d # c /\ mutex = d

(* ------------------------- compiler: claims ---------------------------- *)

\* the wire codes that report an invalid argument of the request
InvalidArgument ==
    { "ILLEGAL_ARGUMENT", "ILLEGAL_TOPK", "ILLEGAL_COLLECTION_NAME", "ILLEGAL_DIMENSION",
      "ILLEGAL_INDEX_TYPE", "ILLEGAL_ROWRECORD", "ILLEGAL_NLIST", "ILLEGAL_METRIC_TYPE",
      "ILLEGAL_VECTOR_ID" }

\* Search has called DeserializeDslToBoolQuery
Deserialized ==
    /\ rpc_request.verb = "Search"
    /\ rpc_pc \notin {"start", "deserialize"}
    /\ failed_at # "collection"

\* DeserializeDslToBoolQuery returned an error
CompileFailed == Deserialized /\ failed_at = "compile"

\* the filter string is structured data without a top-level "bool" key
LacksBoolKey(dsl_string) == dsl_string.parses /\ ~json_contains(dsl_string.json, "bool")

\* C12: for a filter without a top-level "bool" key, DeserializeDslToBoolQuery
\* fails with an error reported as an invalid argument, the boolean query
\* root keeps no occur and no children, and the engine Search is not invoked
\* (stated for requests whose one vector-parameter block is well formed, so
\* that the missing key is the only fault).
C12_NoBoolKeyIsInvalidArgument ==
    (/\ Deserialized
     /\ LacksBoolKey(rpc_request.dsl)
     /\ rpc_request.vector_param = <<GoodVectorParam>>) =>
        /\ CompileFailed
        /\ ErrorMap(rpc_status.code) \in InvalidArgument
        /\ search_boolean = NewBooleanQuery
        /\ engine_calls = 0

\* C13: with a number of vector-parameter blocks other than one,
\* DeserializeDslToBoolQuery fails with an error reported as an invalid
\* argument, whatever the non-empty filter it is given; when it succeeds the
\* placeholder map holds exactly one descriptor.
C13_ExactlyOneVectorParam ==
    /\ (/\ Deserialized
        /\ Len(rpc_request.vector_param) # 1
        /\ rpc_request.dsl.parses
        /\ ~json_empty(rpc_request.dsl.json)) =>
          CompileFailed /\ ErrorMap(rpc_status.code) \in InvalidArgument
    /\ (Deserialized /\ ~CompileFailed) => Cardinality(search_query.vectors) = 1

\* how often the key is a key of an object of the filter value json
RECURSIVE KeyCount(_, _)
RECURSIVE SumKeyCount(_, _, _)
SumKeyCount(items, key, i) ==
    IF i > Len(items) THEN 0
    ELSE KeyCount(items[i], key) + SumKeyCount(items, key, i + 1)

KeyCount(json, key) ==
    (IF json.type = "object"
     THEN Cardinality({ i \in 1..Len(json.keys) : json.keys[i] = key }) ELSE 0)
    + SumKeyCount(json.elems, key, 1)

\* the must, should and must_not keys of the filter value json
RECURSIVE BoolKeyCount(_, _)
BoolKeyCount(json, keys) ==
    IF keys = {} THEN 0
    ELSE LET key == CHOOSE k \in keys : TRUE
         IN  KeyCount(json, key) + BoolKeyCount(json, keys \ {key})

\* the nodes of a boolean query tree that have the occur; all its nodes
\* with NodeCount
RECURSIVE OccurCount(_, _)
RECURSIVE SumOccurCount(_, _, _)
SumOccurCount(nodes, occurs, i) ==
    IF i > Len(nodes) THEN 0
    ELSE OccurCount(nodes[i], occurs) + SumOccurCount(nodes, occurs, i + 1)

OccurCount(boolean_query, occurs) ==
    (IF boolean_query.occur \in occurs THEN 1 ELSE 0)
    + SumOccurCount(boolean_query.boolean_queries, occurs, 1)

NodeCount(boolean_query) ==
    OccurCount(boolean_query, {"INVALID", "MUST", "MUST_NOT", "SHOULD"})

\* the leaf queries of a boolean query tree
RECURSIVE Leaves(_)
Leaves(boolean_query) ==
    { boolean_query.leaf_queries[i] : i \in 1..Len(boolean_query.leaf_queries) }
    \cup UNION { Leaves(boolean_query.boolean_queries[i]) :
                   i \in 1..Len(boolean_query.boolean_queries) }

\* the field names of the term and range leaves of a tree
LeafFields(boolean_query) ==
    { leaf.json_obj.keys[1] : leaf \in { l \in Leaves(boolean_query) : l.kind \in {"term", "range"} } }

\* the placeholders the vector leaves of a tree name
LeafPlaceholders(boolean_query) ==
    { leaf.vector_placeholder : leaf \in { l \in Leaves(boolean_query) : l.kind = "vector" } }

\* DeserializeDslToBoolQuery returned OK
Compiled == Deserialized /\ ~CompileFailed

\* C14: when a must/should/must_not structure compiles, the compiled tree
\* has as many BooleanQuery nodes as the filter has must, should and
\* must_not keys, as many nodes of each occur as keys that name it, and the
\* field name of every term and range leaf is in index_fields.
C14_OneNodePerBoolKey ==
    Compiled =>
        /\ NodeCount(search_boolean) = BoolKeyCount(rpc_request.dsl.json, BoolKeys)
        /\ \A key \in BoolKeys :
              OccurCount(search_boolean, {Occur[key]}) = KeyCount(rpc_request.dsl.json, key)
        /\ LeafFields(search_boolean) \subseteq search_query.index_fields

\* C15: when a filter compiles, the placeholder of every vector leaf of the
\* tree is a key of the placeholder map built from the vector-parameter
\* blocks.
C15_PlaceholdersResolve ==
    Compiled =>
        LeafPlaceholders(search_boolean)
            \subseteq { v.placeholder : v \in search_query.vectors }

\* the top-k the one vector-parameter block of the request names, when
\* DeserializeDslToBoolQuery gets as far as reading it
RequestTopk(request) ==
    IF /\ request.dsl.parses
       /\ ~json_empty(request.dsl.json)
       /\ Len(request.vector_param) = 1
       /\ request.vector_param[1].json.parses
    THEN LET vector_json == request.vector_param[1].json.json
         IN  IF /\ vector_json.type = "object"
                /\ vector_json.elems[1].type = "object"
                /\ ~json_empty(vector_json.elems[1])
                /\ vector_json.elems[1].elems[1].type = "object"
                /\ json_contains(vector_json.elems[1].elems[1], "topk")
                /\ json_at(vector_json.elems[1].elems[1], "topk").type = "number"
             THEN { json_at(vector_json.elems[1].elems[1], "topk").num }
             ELSE {}
    ELSE {}

\* C16: when the top-k of the vector-parameter block fails
\* ValidateSearchTopk, DeserializeDslToBoolQuery returns that failure and
\* leaves nothing behind: the boolean query has no occur and no children,
\* and vectors, index_fields and metric_types are empty.
C16_TopkFailureLeavesNothing ==
    \A topk \in RequestTopk(rpc_request) :
        (Deserialized /\ ValidateSearchTopk(topk) # StatusOK) =>
            /\ CompileFailed
            /\ rpc_status = ValidateSearchTopk(topk)
            /\ search_boolean = NewBooleanQuery
            /\ search_query = NewQuery

C16_Witness ==
    /\ rpc_pc = "returned"
    /\ CompileFailed
    /\ \E topk \in RequestTopk(rpc_request) : topk > EngineMaxTopk
    /\ search_query = NewQuery
    /\ response.status.error_code = "ILLEGAL_TOPK"

\* the placeholder, the field and the parameters of a vector-parameter block
\* {placeholder: {field: parameters}}
BlockPlaceholder(vector_param) == vector_param.json.json.keys[1]
BlockField(vector_param) == vector_param.json.json.elems[1].keys[1]
BlockParams(vector_param) == vector_param.json.json.elems[1].elems[1]

\* a block {placeholder: {field: parameters}} whose parameters hold a top-k
\* the engine accepts and, if any, a metric type that is a string
WellFormedBlock(vector_param) ==
    /\ vector_param.json.parses
    /\ vector_param.json.json.type = "object" /\ vector_param.json.json.keys # <<>>
    /\ vector_param.json.json.elems[1].type = "object"
    /\ vector_param.json.json.elems[1].keys # <<>>
    /\ BlockParams(vector_param).type = "object"
    /\ json_contains(BlockParams(vector_param), "topk")
    /\ json_at(BlockParams(vector_param), "topk").type = "number"
    /\ ValidateSearchTopk(json_at(BlockParams(vector_param), "topk").num) = StatusOK
    /\ json_contains(BlockParams(vector_param), "metric_type") =>
          json_at(BlockParams(vector_param), "metric_type").type = "string"

\* the structured data j holds the vector leaf {"vector": placeholder}
RECURSIVE RefersTo(_, _)
RefersTo(j, placeholder) ==
    \/ j = VectorLeaf(placeholder)
    \/ \E i \in 1..Len(j.elems) : RefersTo(j.elems[i], placeholder)

\* j is a must/should/must_not structure: an object of boolean keys, each
\* with a non-empty array of clauses that are term, range or vector leaves
\* or such structures again
RECURSIVE WellFormedBool(_)
WellFormedBool(j) ==
    /\ j.type = "object" /\ j.keys # <<>>
    /\ \A i \in 1..Len(j.keys) :
          /\ j.keys[i] \in {"must", "should", "must_not"}
          /\ j.elems[i].type = "array" /\ j.elems[i].elems # <<>>
          /\ \A k \in 1..Len(j.elems[i].elems) :
                \/ j.elems[i].elems[k] \in BaseLeaves
                \/ WellFormedBool(j.elems[i].elems[k])

\* the filter string is {"bool": b} for a must/should/must_not structure b
WellFormedFilter(dsl_string) ==
    /\ dsl_string.parses
    /\ dsl_string.json.type = "object" /\ dsl_string.json.keys = <<"bool">>
    /\ WellFormedBool(dsl_string.json.elems[1])

\* Search has called DeserializeDslToBoolQuery on a well-formed filter that
\* refers to the placeholder of the one, well-formed, block of the request
RoundTripInput ==
    /\ Deserialized
    /\ Len(rpc_request.vector_param) = 1
    /\ WellFormedBlock(rpc_request.vector_param[1])
    /\ WellFormedFilter(rpc_request.dsl)
    /\ RefersTo(rpc_request.dsl.json, BlockPlaceholder(rpc_request.vector_param[1]))

\* the descriptors query_ptr->vectors holds under the placeholder of the block
Descriptors ==
    { v.vector_query : v \in { w \in search_query.vectors :
                                  w.placeholder = BlockPlaceholder(rpc_request.vector_param[1]) } }

\* compilation succeeded and the one descriptor under the placeholder has the
\* field name, top-k and metric type of the block, the metric type being
\* recorded under the field too
RoundTripButParams ==
    LET block == rpc_request.vector_param[1]
        params == BlockParams(block)
    IN  /\ Compiled
        /\ Cardinality(Descriptors) = 1
        /\ \A d \in Descriptors :
              /\ d.field_name = BlockField(block)
              /\ d.topk = json_at(params, "topk").num
              /\ json_contains(params, "metric_type") =>
                    /\ d.metric_type = json_at(params, "metric_type").str
                    /\ <<BlockField(block), d.metric_type>> \in search_query.metric_types

\* C26 as stated: the descriptor's extra params equal the "params" of the
\* block exactly, whatever they are.
C26_DescriptorEqualsInput ==
    RoundTripInput =>
        /\ RoundTripButParams
        /\ \A d \in Descriptors :
              json_contains(BlockParams(rpc_request.vector_param[1]), "params") =>
                  d.extra_params = json_at(BlockParams(rpc_request.vector_param[1]), "params")

\* C26: compiling a well-formed filter that refers to the placeholder of the
\* single well-formed block succeeds; the descriptor under that placeholder
\* has the block's field name, top-k and metric type (also recorded under the
\* field in metric_types), and its extra params are the block's "params" when
\* these are not empty and stay null when they are empty or absent.
C26_DescriptorRoundTrip ==
    RoundTripInput =>
        /\ RoundTripButParams
        /\ \A d \in Descriptors :
              LET params == BlockParams(rpc_request.vector_param[1])
              IN  d.extra_params =
                      IF json_contains(params, "params") /\ ~json_empty(json_at(params, "params"))
                      THEN json_at(params, "params") ELSE JNull

\* a filter that refers to placeholder_1 was compiled with the block that
\* carries L2, top-k 10 and {"nprobe": 10}
C26_Witness ==
    /\ RoundTripInput
    /\ rpc_request.vector_param = <<GoodVectorParam>>
    /\ \E d \in Descriptors :
          d.extra_params = JObject(<<"nprobe">>, <<JNumber(10)>>) /\ d.metric_type = "L2"

(* ------------------------- handlers: claims ---------------------------- *)

\* what the try block of DeserializeDslToBoolQuery ends with for the request
\* in hand
TryOutcome ==
    DeserializeTry(rpc_request.vector_param, rpc_request.dsl, NewBooleanQuery, NewQuery).status

\* C17: Search, CreateCollection and CreateIndex return normally whatever
\* the request holds, and an exception raised while the filter is compiled
\* is reported as an invalid argument that carries the message of the
\* exception.
C17_NoExceptionLeavesHandler ==
    /\ rpc_pc = "returned" => returned = "OK"
    /\ (Deserialized /\ TryOutcome.code = "exception") =>
          /\ CompileFailed
          /\ ErrorMap(rpc_status.code) \in InvalidArgument
          /\ response.status.reason = TryOutcome.message

\* the steps of Search that come before the engine's Search
BeforeEngine == {"collection", "compile", "boolean", "binary"}

\* C18: when Search fails at a step (the collection lookup, the compilation,
\* the validation of the boolean tree, the validation of the binary tree,
\* the engine's Search) it returns ::grpc::Status::OK at once, without the
\* engine's Search when the failure came before it, and the status of the
\* response is the error.
C18_SearchFailureInResponseStatus ==
    (rpc_request.verb = "Search" /\ failed_at # "") =>
        /\ rpc_pc = "returned"
        /\ returned = "OK"
        /\ failed_at \in BeforeEngine => engine_calls = 0
        /\ response.status = SET_RESPONSE(rpc_status)
        /\ response.status.error_code # "SUCCESS"

(* -------------------------- OnInsert: claims --------------------------- *)

\* OnInsert has returned
InsertReturned == rpc_request.verb = "Insert" /\ rpc_pc = "returned"

\* some field of the request has another row count than its first field
FieldsDiffer(request) ==
    \E i \in 1..Len(request.fields) :
        FieldRowCount(request.fields[i]) # FieldRowCount(request.fields[1])

C20_IdArrayMatchesRowCount ==
    (InsertReturned /\ rpc_request.entity_id_array # <<>>) =>
        \A i \in 1..Len(insert_params) :
            Len(rpc_request.entity_id_array) = insert_params[i].row_count_

(* ---------------------- CreateCollection: claims ----------------------- *)

\* two fields of the mapping carry the same name
DuplicateName(fields) == \E i, j \in 1..Len(fields) : i # j /\ fields[i].name = fields[j].name

\* CreateCollection has been left
CreateCollectionLeft == rpc_request.verb = "CreateCollection" /\ rpc_pc = "returned"

\* C25: a mapping with more than 64 fields, or with two fields of one name,
\* is answered with an invalid-argument status and the engine's
\* CreateCollection is not invoked; a mapping with at most 64 fields of
\* different names is handed to the engine exactly once.
C25_FieldLimitsBeforeDispatch ==
    CreateCollectionLeft =>
        IF Len(rpc_request.fields) > MAXIMUM_FIELD_NUM \/ DuplicateName(rpc_request.fields)
        THEN /\ returned = "OK"
             /\ response.status.error_code \in InvalidArgument
             /\ engine_calls = 0
        ELSE engine_calls = 1

(* ---------------------------- codec: claims ---------------------------- *)

\* OnInsert has recorded the fields of the insert request
Recorded == codec_request.verb = "Insert" /\ codec_pc = "recorded"

\* the variants of an attribute record in the order int32, int64, float,
\* double, and the elements a field holds of one of them
ScalarVariants == <<"int32", "int64", "float", "double">>

VariantValues(field, variant) ==
    CASE variant = "int32"  -> field.int32_value
      [] variant = "int64"  -> field.int64_value
      [] variant = "float"  -> field.float_value
      [] variant = "double" -> field.double_value

\* the first of these variants that has elements, "vector" when none has
Authoritative(field) ==
    IF \A i \in DOMAIN ScalarVariants : VariantValues(field, ScalarVariants[i]) = <<>>
    THEN "vector"
    ELSE ScalarVariants[CHOOSE i \in DOMAIN ScalarVariants :
                            /\ VariantValues(field, ScalarVariants[i]) # <<>>
                            /\ \A j \in 1..(i - 1) : VariantValues(field, ScalarVariants[j]) = <<>>]

\* all float bytes and all binary bytes of the records of a field
FloatBytes(records) == Flatten([i \in 1..Len(records) |-> Flatten(records[i].float_data)])
BinaryBytes(records) == Flatten([i \in 1..Len(records) |-> records[i].binary_data])

\* C21: for each field of an insert request one variant is recorded, the
\* first in the order int32, int64, float, double with a non-zero element
\* count, the vector records when all four are empty; its count is the row
\* count of the field, and the bytes recorded are those of that variant
\* alone, whatever the other variants hold.
C21_FirstNonEmptyVariantIsRecorded ==
    Recorded =>
        /\ Len(fields_data) = Len(codec_request.fields)
        /\ \A i \in 1..Len(fields_data) :
              LET field == codec_request.fields[i]
                  column == fields_data[i]
              IN  /\ column.variant = Authoritative(field)
                  /\ IF column.variant = "vector"
                     THEN /\ column.count = Len(field.records)
                          /\ Flatten(column.spans) \in
                                {<<>>, FloatBytes(field.records), BinaryBytes(field.records)}
                     ELSE /\ column.count = Len(VariantValues(field, column.variant))
                          /\ column.spans = <<Flatten(VariantValues(field, column.variant))>>

\* a field with int64 values, double values and vector records, but no
\* int32 value, was recorded as int64
C21_Witness ==
    /\ Recorded
    /\ \E i \in 1..Len(fields_data) :
          /\ codec_request.fields[i].int32_value = <<>>
          /\ Len(codec_request.fields[i].int64_value) = MaxRows
          /\ codec_request.fields[i].double_value # <<>>
          /\ codec_request.fields[i].records # <<>>
          /\ fields_data[i].variant = "int64"
          /\ fields_data[i].count = MaxRows

\* CopyRowRecords has copied the records of the vector parameter
Copied == codec_request.verb = "SearchVectors" /\ codec_pc = "copied"

\* the records hold float data and binary data
BothVariants(records) == FloatDataSize(records) > 0 /\ BinaryDataSize(records) > 0

\* C22: for a vector field whose records hold both float data and binary
\* data, the binary data is what RecordVectorDataAddr records and what
\* CopyRowRecords copies, and the float data is left out.
C22_BinaryOverFloat ==
    /\ Recorded =>
          \A i \in 1..Len(fields_data) :
              (fields_data[i].variant = "vector" /\ BothVariants(codec_request.fields[i].records)) =>
                  Flatten(fields_data[i].spans) = BinaryBytes(codec_request.fields[i].records)
    /\ (Copied /\ BothVariants(codec_request.fields[1].records)) =>
          /\ vectors.binary_data_ = BinaryBytes(codec_request.fields[1].records)
          /\ vectors.float_data_ = <<>>

\* the number of valid rows CopyDataChunkToEntity is given for the request
RequestIdSize ==
    IF codec_request.verb = "GetEntityByID" THEN ValidSize(codec_request.valid_row)
    ELSE SearchIdSize(codec_request.ids)

\* the handler has marshalled the engine's result into the response and
\* returned (Search returns before that when the engine reports an error)
Marshalled ==
    /\ codec_request.verb \in {"GetEntityByID", "Search"}
    /\ codec_pc \in {"returned", "reinserted"}
    /\ codec_request.verb = "Search" => response.status.error_code = "SUCCESS"

\* the byte length of the column is not a multiple of the valid row count
Corrupt(column, id_size) ==
    column.data # <<>> /\ id_size > 0 /\ Len(column.data) % id_size # 0

\* the row values a field of the response carries
RowValues(field) ==
    field.int32_value \o field.int64_value \o field.float_value \o field.double_value
    \o field.records

\* the fields of the response that carry the name
FieldsNamed(name) ==
    { i \in 1..Len(entities.fields) : entities.fields[i].field_name = name }

\* C23: of a column whose byte length is not a multiple of the valid row
\* count no row value is put in the response and an error is recorded in the
\* status of the response, while the columns before it are in the response.
C23_CorruptColumnIsAborted ==
    Marshalled =>
        \A i \in 1..Len(codec_request.data_chunk.columns) :
            Corrupt(codec_request.data_chunk.columns[i], RequestIdSize) =>
                /\ \A k \in FieldsNamed(codec_request.data_chunk.columns[i].field_name) :
                      RowValues(entities.fields[k]) = <<>>
                /\ \/ response.status.error_code # "SUCCESS"
                   \/ response.entities_status.error_code # "SUCCESS"
                /\ \A j \in 1..(i - 1) :
                      FieldsNamed(codec_request.data_chunk.columns[j].field_name) # {}

\* the column has no data, or its byte length is the valid row count times
\* a row width of its type
WellFormed(column, id_size) ==
    \/ column.data = <<>>
    \/ /\ id_size > 0
       /\ Len(column.data) % id_size = 0
       /\ CASE column.type = "VECTOR_BINARY" -> TRUE
            [] column.type = "VECTOR_FLOAT"  -> (Len(column.data) \div id_size) % 4 = 0
            [] OTHER -> Len(column.data) \div id_size = sizeof(column.type)

\* the engine's result holds well-formed columns only
WellFormedResult ==
    \A i \in 1..Len(codec_request.data_chunk.columns) :
        WellFormed(codec_request.data_chunk.columns[i], RequestIdSize)

\* no memcpy of the marshalling of the engine's result is undefined
DefinedResult ==
    \A i \in 1..Len(codec_request.data_chunk.columns) :
        ~Undefined(codec_request.data_chunk.columns[i], RequestIdSize)

\* the id at position i of the request is missing from the engine's result
Missing(i) ==
    IF codec_request.verb = "Search" THEN codec_request.ids[i] = -1
    ELSE ~codec_request.valid_row[i]

\* the bytes of row value r of a field of the response
RowBytes(field, r) ==
    IF field.records # <<>>
    THEN Flatten(field.records[r].float_data) \o field.records[r].binary_data
    ELSE RowValues(field)[r]

\* the columns of the engine's result that have data
ColumnsWithData ==
    SelectSeq(codec_request.data_chunk.columns, LAMBDA column : column.data # <<>>)

\* C24: the bitmap of a Search or GetEntityByID response has one entry per
\* id, false exactly for the missing ids; every column with data is returned
\* as one field with as many row values as the bitmap has true entries, and
\* row value r holds the bytes [(r-1)*w, r*w) of the column, w being the
\* byte length of the column over the number of true entries, rounded down
\* (stated for results whose scalar rows have the width of their type and
\* whose float-vector rows are whole floats: the copy is undefined otherwise).
C24_RowsAlignWithBitmap ==
    (Marshalled /\ DefinedResult) =>
        /\ entities.ids = codec_request.ids
        /\ Len(entities.valid_row) = Len(codec_request.ids)
        /\ \A i \in 1..Len(entities.valid_row) : entities.valid_row[i] = ~Missing(i)
        /\ Len(entities.fields) = Len(ColumnsWithData)
        /\ \A k \in 1..Len(entities.fields) :
              LET field == entities.fields[k]
                  column == ColumnsWithData[k]
                  w == Len(column.data) \div ValidSize(entities.valid_row)
              IN  /\ field.field_name = column.field_name
                  /\ field.type = column.type
                  /\ Len(RowValues(field)) = ValidSize(entities.valid_row)
                  /\ \A r \in 1..Len(RowValues(field)) :
                        RowBytes(field, r) = SubSeq(column.data, (r - 1) * w + 1, r * w)

\* a Search result with a missing id between two ids that were found: the
\* second row of the float-vector column follows the first without a gap
C24_Witness ==
    /\ Marshalled /\ WellFormedResult
    /\ codec_request.verb = "Search"
    /\ codec_request.ids = <<7, -1, 7>>
    /\ entities.valid_row = <<TRUE, FALSE, TRUE>>
    /\ \E k \in 1..Len(entities.fields) :
          /\ entities.fields[k].type = "VECTOR_FLOAT"
          /\ Len(entities.fields[k].records) = 2
          /\ entities.fields[k].records[2].float_data = <<<<5, 6, 7, 8>>>>

\* the fields of the response were sent back and recorded by OnInsert
ReInserted == Marshalled /\ codec_pc = "reinserted"

\* the variant OnInsert must take for a column of the type
VariantOf(type) ==
    CASE type = "INT32"  -> "int32"
      [] type = "INT64"  -> "int64"
      [] type = "FLOAT"  -> "float"
      [] type = "DOUBLE" -> "double"
      [] OTHER -> "vector"

\* C27: marshalling the columns of an engine result to the rows of the
\* response and recording those rows again as OnInsert does gives, per
\* column, spans that one after the other are the bytes of the column, for
\* int32, int64, float, double, float-vector and binary-vector columns
\* (stated for well-formed columns: the byte length is the valid row count
\* times a row width of the type).
C27_CodecRoundTrip ==
    (ReInserted /\ WellFormedResult) =>
        /\ Len(fields_data) = Len(ColumnsWithData)
        /\ \A k \in 1..Len(fields_data) :
              /\ fields_data[k].variant = VariantOf(ColumnsWithData[k].type)
              /\ fields_data[k].count = RequestIdSize
              /\ Flatten(fields_data[k].spans) = ColumnsWithData[k].data

\* two columns of MaxRows rows went through the round trip, the second one
\* of doubles
C27_Witness ==
    /\ ReInserted /\ WellFormedResult
    /\ RequestIdSize = MaxRows
    /\ Len(fields_data) = 2
    /\ ColumnsWithData[2].type = "DOUBLE"
    /\ Len(Flatten(fields_data[2].spans)) = MaxRows * sizeof("DOUBLE")

(* ---------------------- admission gate: claims ------------------------- *)

\* the bytes the calls of S have acquired and not yet given back
RECURSIVE SumHeld(_)
SumHeld(S) ==
    IF S = {} THEN 0
    ELSE LET c == CHOOSE x \in S : TRUE IN held[c] + SumHeld(S \ {c})

\* C28: with a positive configured budget B and request sizes that are not
\* negative, the remaining budget max_concurrent_insert_request_size is
\* strictly positive in every reachable state and is B less the sizes of the
\* requests admitted and not yet released.
C28_BudgetPositiveAndAccounted ==
    /\ budget > 0
    /\ budget = Budget - SumHeld(Calls)
    /\ \A c \in Calls : held[c] = IF c \in Admitted THEN request_size[c] ELSE 0

\* a request of all but one byte of the budget is admitted: one byte is left
C28_Witness ==
    \E c \in Admitted : request_size[c] = Budget - 1 /\ budget = 1

\* positions of a call inside Cmd
InCmd == {"cmd_requests", "cmd_requests_in", "cmd_engine_get", "cmd_engine_get_in", "cmd_engine",
          "cmd_end", "cmd_end_in"}

\* positions of a call inside OnInsert
InOnInsert == {"on_insert", "ins_engine_get", "ins_engine_get_in", "ins_engine"}

\* the call has returned from WaitToInsert and has not run FinishInsert
InWindow(c) == n_wait[c] = 1 /\ n_finish[c] = 0 /\ held[c] = request_size[c]

\* C30: OnInsert and in it req_handler_.Insert run only after the call has
\* returned from WaitToInsert and before it runs FinishInsert, the engine's
\* Insert is not invoked for a call that is not admitted, and only steps of
\* WaitToInsert and FinishInsert, made by calls of Insert, change the budget.
C30_EngineInsertInsideWindow ==
    /\ [](\A c \in Calls : pc[c] \in InOnInsert => InWindow(c))
    /\ [](\A c \in Calls : pc[c] \in InCmd => n_wait[c] = 0 /\ held[c] = 0)
    /\ [][\A c \in Calls :
            /\ engine_insert'[c] > engine_insert[c] => pc[c] = "ins_engine" /\ InWindow(c)
            /\ (held'[c] # held[c] \/ n_wait'[c] # n_wait[c] \/ n_finish'[c] # n_finish[c]) =>
                  pc[c] \in {"wait", "finish_insert"}]_vars
    /\ [][budget' # budget => \E c \in Calls : pc[c] \in {"wait", "finish_insert"}
                                               /\ held'[c] # held[c]]_vars

\* the engine's Insert runs for an admitted call while another call is in the
\* engine for Cmd
C30_Witness ==
    \E c, d \in Calls :
        /\ pc[c] = "ins_engine" /\ InWindow(c) /\ request_size[c] > 0
        /\ pc[d] = "cmd_engine"

====
